---- MODULE Spec2Model ----
(***************************************************************************)
(* Dynamic channel runtime of gpt-load: the script catalogue               *)
(* (ScriptService), the hot-reload controller (ScriptManager) and the      *)
(* channel Factory with its per-group instance cache.                      *)
(*                                                                         *)
(* Every SQL statement issued through gorm is one atomic step; a service   *)
(* method that issues several statements is a sequence of steps of one     *)
(* request process, so that concurrent requests interleave between the     *)
(* statements exactly as they can in the server.                           *)
(***************************************************************************)
EXTENDS Integers, FiniteSets, Sequences, TLC

\* ------------------------------------------------------------------ bounds
NumTypes   == 2      \* channel_type tags 1..NumTypes
MaxScripts == 2      \* rows ever inserted (auto-increment ids 1..MaxScripts)
NumSources == 4      \* distinct (script text, metadata) bundles
NumCatSources == 2   \* of which the catalogue-only specification submits the first
NumProcs   == 2      \* concurrent administrative requests
NumGroups  == 2      \* groups served by the proxy
NumConfigs == 2      \* distinct effective configurations of a group
MaxTime    == 2      \* wall clock, in seconds

ChannelTypes == 1..NumTypes
Ids          == 1..MaxScripts
Sources      == 1..NumSources
CatSources   == 1..NumCatSources
Procs        == 1..NumProcs
Groups       == 1..NumGroups
Configs      == 1..NumConfigs

\* ------------------------------------------------------------- the sources
\* A source stands for the script text together with the metadata column.
\* Kinds of text, by what the validator and the sandbox do with them:
\*   1  passes ValidateScript, loads in the sandbox, exports() returns
\*   2  rejected by ValidateScript; its top level still runs, exports() throws
\*   3  passes ValidateScript in the bare VM, but NewScriptRuntime fails
\*      (top level depends on the sandbox globals, or metadata does not parse)
\*   0  as 1, another text (source 4 is a new version of source 1)
SourceKind(s) == s % 4

\* ScriptSecurityValidator.ValidateScript on these texts, none of which reads
\* the clock or Math.random.
ValidateScript(s) == SourceKind(s) # 2

\* ScriptService.validateScriptSyntax delegates to the security validator.
validateScriptSyntax(s) == ValidateScript(s)

\* channel.NewScriptRuntime: metadata parses, top level runs, exports is callable.
NewScriptRuntime(s) == SourceKind(s) # 3

\* the call of exports() in channel.NewScriptChannel
ExportsCall(s) == SourceKind(s) \in {0, 1}

\* ScriptManager.calculateScriptHash: sha256 prefix of the text, taken as
\* collision free on the texts of the model.
calculateScriptHash(s) == s

\* ---------------------------------------------------------------- the state
VARIABLES
    catalogue,        \* channel_scripts table: id -> row or NoRow
    nextId,           \* auto-increment of the primary key
    pc,               \* per request process: the statement it is about to issue
    now,              \* wall clock (seconds)
    activeScripts,    \* ScriptManager.activeScripts (its keys)
    scriptVersions,   \* ScriptManager.scriptVersions: id -> version or NoVersion
    running,          \* ScriptManager.running
    stopClosed,       \* ScriptManager.stopChan has been closed
    loopAlive,        \* a reloadLoop goroutine is alive
    panicked,         \* close of a closed channel
    tick,             \* the reloadLoop's position inside checkForUpdates
    ticked,           \* the ticker was created or has fired in the current second
    dynamicChannels,  \* Factory.dynamicChannels: type -> registered script or NoScript
    channelCache,     \* Factory.channelCache: group -> instance or NoChannel
    groupConfig,      \* the groups' current effective configuration
    last,             \* the last completed call and its outcome (observer)
    client,           \* an API client's remaining calls, issued one after the other
    inflight,         \* per proxy request: the Channel Instance it holds, its position
    rt,               \* one ScriptRuntime's rate-limit fields
    hist,             \* what that runtime's calls did so far (observer)
    locks             \* the three mutexes and what each goroutine has yet to do to them

catVars  == <<catalogue, nextId, pc>>
mgrVars  == <<activeScripts, scriptVersions, running, stopClosed, loopAlive,
              panicked, tick, ticked>>
facVars  == <<dynamicChannels, channelCache>>
auxVars  == <<client, inflight, rt, hist, locks>>
vars     == <<catalogue, nextId, pc, now, activeScripts, scriptVersions, running,
              stopClosed, loopAlive, panicked, tick, ticked, dynamicChannels,
              channelCache, groupConfig, last, client, inflight, rt, hist, locks>>

NoRow     == [status |-> "none"]
NoScript  == 0
NoVersion == <<>>
NoChannel == [kind |-> "none"]
Idle      == [op |-> "idle"]
NoTick    == [at |-> "idle"]
Pending   == [op |-> "-"]       \* observer value of a step that completes no call
NoClient  == <<>>
NoRequest == [at |-> "idle"]

\* the goroutines that call into the Factory and the controller, and the
\* locks they share: ScriptManager.mutex, Factory.mutex, Factory.cacheLock
NumThreads == 3
Threads    == 1..NumThreads
LockNames  == {"sm.mutex", "f.mutex", "f.cacheLock"}

\* no lock is held and no goroutine is inside a call
NoLocks ==
    [writer  |-> [l \in LockNames |-> 0],
     readers |-> [l \in LockNames |-> {}],
     todo    |-> [t \in Threads |-> <<>>]]

\* models.ChannelScript as the code reads and writes it
Row(ct, s, st, e, t) ==
    [channel_type |-> ct, script |-> s, status |-> st, err |-> e, updated_at |-> t]

Present(cat) == {i \in Ids : cat[i] # NoRow}

\* the observer record of a completed catalogue call: the row id, the script
\* text an update carried (0: none), and the outcome
Obs(op, id, s, ok, why) == [op |-> op, id |-> id, src |-> s, ok |-> ok, why |-> why]

\* ScriptHandler.CreateScript, lines 110-117: every error of the service is
\* answered with ErrInternalServer and one fixed message
CreateScriptResponse(ok) ==
    IF ok THEN [code |-> 200, message |-> "success"]
    ELSE [code |-> 500, message |-> "Failed to create script"]

\* the observer record of a completed create call, with the HTTP answer
CreateObs(id, ok, why) ==
    [op |-> "create", id |-> id, src |-> 0, ok |-> ok, why |-> why,
     http |-> CreateScriptResponse(ok)]

\* ------------------------------------------------------------ the database
\* The unique index on channel_scripts.channel_type: a statement that would
\* leave two rows with the same channel_type fails and changes nothing.
\* a table without the index: no statement is refused
NoUniqueIndex(cat, id, ct) == FALSE

\* an INSERT that is never refused
InsertUnchecked(cat, id, ct) == TRUE

UniqueViolation(cat, id, ct) ==
    \E j \in Present(cat) \ {id} : cat[j].channel_type = ct

UniqueOK(cat, id, ct) == ~UniqueViolation(cat, id, ct)

\* db.Where("channel_type = ?", ct).First(&existing): a row was found
ExistsChannelType(cat, ct) == \E i \in Present(cat) : cat[i].channel_type = ct

\* db.Where("status = ?", "enabled").Find(&scripts)
GetEnabledScripts(cat) ==
    {[id |-> i, channel_type |-> cat[i].channel_type, script |-> cat[i].script,
      updated_at |-> cat[i].updated_at] : i \in {j \in Present(cat) : cat[j].status = "enabled"}}

\* requests that passed CreateScript's existence check and have not inserted yet
Creating == {p \in Procs : pc[p].op = "create"}

\* --------------------------------------------------- ScriptService.CreateScript
\* validateScriptSyntax, then the SELECT on channel_type (one statement).
\* The handler always passes status "disabled".
CreateBegin(p, ct, s) ==
    /\ pc[p] = Idle
    /\ nextId + Cardinality(Creating) <= MaxScripts
    /\ IF ~validateScriptSyntax(s)
         THEN /\ last' = CreateObs(0, FALSE, "validation")
              /\ UNCHANGED pc
         ELSE IF ExistsChannelType(catalogue, ct)
         THEN /\ last' = CreateObs(0, FALSE, "exists")
              /\ UNCHANGED pc
         ELSE /\ pc' = [pc EXCEPT ![p] = [op |-> "create", ct |-> ct, src |-> s]]
              /\ last' = Pending
    /\ UNCHANGED <<catalogue, nextId, now, mgrVars, facVars, groupConfig>>

\* db.Create(script): the INSERT, refused by the unique index on a duplicate
CreateInsert(p) ==
    /\ pc[p].op = "create"
    /\ pc' = [pc EXCEPT ![p] = Idle]
    /\ IF UniqueOK(catalogue, 0, pc[p].ct)
         THEN /\ catalogue' = [catalogue EXCEPT
                     ![nextId] = Row(pc[p].ct, pc[p].src, "disabled", FALSE, now)]
              /\ nextId' = nextId + 1
              /\ last' = CreateObs(nextId, TRUE, "-")
         ELSE /\ last' = CreateObs(0, FALSE, "db")
              /\ UNCHANGED <<catalogue, nextId>>
    /\ UNCHANGED <<now, mgrVars, facVars, groupConfig>>

\* --------------------------------------------------- ScriptService.UpdateScript
\* The row is read only for its primary key, so the SELECT and the UPDATE act
\* on the table as one conditional UPDATE.  A patch is (script, channel_type),
\* 0 meaning the key is absent.  isMap: the updates value is a
\* map[string]interface{}; only then does the type assertion of line 84
\* succeed and the new script get validated.  persists: whether gorm's
\* Updates writes the given fields (it does for a map; for a struct value of
\* another type it either writes the non-zero fields or fails).
UpdateScript(id, s, ct, isMap, persists) ==
    LET row   == catalogue[id]
        newct == IF ct = 0 THEN row.channel_type ELSE ct
        news  == IF s = 0 THEN row.script ELSE s
    IN
    IF row = NoRow
    THEN /\ last' = Obs("update", id, s, FALSE, "notfound")
         /\ UNCHANGED catalogue
    ELSE IF isMap /\ s # 0 /\ ~validateScriptSyntax(s)
    THEN /\ last' = Obs("update", id, s, FALSE, "validation")
         /\ UNCHANGED catalogue
    ELSE IF ~persists \/ UniqueViolation(catalogue, id, newct)
    THEN /\ last' = Obs("update", id, s, FALSE, "db")
         /\ UNCHANGED catalogue
    ELSE /\ catalogue' = [catalogue EXCEPT
                ![id] = Row(newct, news, row.status, row.err, now)]
         /\ last' = Obs("update", id, s, TRUE, "-")

\* a caller that passes a map (script and/or channel_type keys)
UpdateScriptMap(id, s, ct) ==
    /\ s # 0 \/ ct # 0
    /\ UpdateScript(id, s, ct, TRUE, TRUE)
    /\ UNCHANGED <<nextId, pc, now, mgrVars, facVars, groupConfig>>

\* ScriptHandler.UpdateScript (PUT /scripts/:id): passes its request struct,
\* which has no channel_type field.
HandlerUpdateScript(id, s) ==
    /\ \E persists \in BOOLEAN : UpdateScript(id, s, 0, FALSE, persists)
    /\ UNCHANGED <<nextId, pc, now, mgrVars, facVars, groupConfig>>

\* --------------------------------------------------- ScriptService.EnableScript
\* db.First(&script, id) and validateScriptSyntax on the row just read.  A
\* failed validation returns the error and issues no further statement.
EnableBegin(p, id) ==
    /\ pc[p] = Idle
    /\ IF catalogue[id] = NoRow
         THEN /\ last' = Obs("enable", id, 0, FALSE, "notfound")
              /\ UNCHANGED pc
         ELSE IF ~validateScriptSyntax(catalogue[id].script)
         THEN /\ last' = Obs("enable", id, 0, FALSE, "validation")
              /\ UNCHANGED pc
         ELSE /\ pc' = [pc EXCEPT ![p] = [op |-> "enableOthers", id |-> id,
                                           snap |-> [channel_type |-> catalogue[id].channel_type,
                                                    script |-> catalogue[id].script]]]
              /\ last' = Pending
    /\ UNCHANGED <<catalogue, nextId, now, mgrVars, facVars, groupConfig>>

\* UPDATE ... SET status = 'disabled' WHERE channel_type = ? AND id != ?
DisableOthers(cat, id, ct, t) ==
    [i \in Ids |->
        IF cat[i] # NoRow /\ i # id /\ cat[i].channel_type = ct
        THEN [cat[i] EXCEPT !.status = "disabled", !.updated_at = t]
        ELSE cat[i]]

EnableDisableOthers(p) ==
    /\ pc[p].op = "enableOthers"
    /\ catalogue' = DisableOthers(catalogue, pc[p].id, pc[p].snap.channel_type, now)
    /\ pc' = [pc EXCEPT ![p] = [pc[p] EXCEPT !.op = "enableSave"]]
    /\ last' = Pending
    /\ UNCHANGED <<nextId, now, mgrVars, facVars, groupConfig>>

\* a struct saved with its error fields still set
EnabledRowWithError(snap, t) == Row(snap.channel_type, snap.script, "enabled", TRUE, t)

\* lines 142-144: the struct read at the start, with status enabled, ErrorMsg
\* empty and LastError nil
EnabledRow(snap, t) == Row(snap.channel_type, snap.script, "enabled", FALSE, t)

\* db.Save(&script): every column is written from the struct read at the
\* start, with status enabled and the error fields cleared.  When the row has
\* been deleted meanwhile gorm's Save either changes nothing or inserts the
\* struct again (upsert), depending on its version: reinsert chooses.
EnableSave(p, reinsert) ==
    LET id   == pc[p].id
        snap == pc[p].snap
        row  == EnabledRow(snap, now)
    IN
    /\ pc[p].op = "enableSave"
    /\ pc' = [pc EXCEPT ![p] = Idle]
    /\ IF UniqueViolation(catalogue, id, snap.channel_type)
         THEN /\ last' = Obs("enable", id, 0, FALSE, "db")
              /\ UNCHANGED catalogue
         ELSE IF catalogue[id] = NoRow /\ ~reinsert
         THEN /\ last' = Obs("enable", id, 0, TRUE, "norow")
              /\ UNCHANGED catalogue
         ELSE /\ catalogue' = [catalogue EXCEPT ![id] = row]
              /\ last' = Obs("enable", id, 0, TRUE, "-")
    /\ UNCHANGED <<nextId, now, mgrVars, facVars, groupConfig>>

\* -------------------------------------------------- ScriptService.DisableScript
\* UPDATE ... SET status = 'disabled' WHERE id = ?; no row is no error.
DisableRow(cat, id, t) ==
    IF cat[id] = NoRow THEN cat
    ELSE [cat EXCEPT ![id] = [cat[id] EXCEPT !.status = "disabled", !.updated_at = t]]

DisableScript(id) ==
    /\ catalogue' = DisableRow(catalogue, id, now)
    /\ last' = Obs("disable", id, 0, TRUE, "-")
    /\ UNCHANGED <<nextId, pc, now, mgrVars, facVars, groupConfig>>

\* --------------------------------------------------- ScriptService.DeleteScript
\* SELECT, DisableScript when the row read is enabled, DELETE.  The disabled
\* row between the last two statements is a state DisableScript also
\* produces; the three statements are taken as one step.
DeleteScript(id) ==
    /\ IF catalogue[id] = NoRow
         THEN /\ last' = Obs("delete", id, 0, FALSE, "notfound")
              /\ UNCHANGED catalogue
         ELSE /\ catalogue' = [catalogue EXCEPT ![id] = NoRow]
              /\ last' = Obs("delete", id, 0, TRUE, "-")
    /\ UNCHANGED <<nextId, pc, now, mgrVars, facVars, groupConfig>>

\* ------------------------------------------------------------------- clock
AdvanceClock ==
    /\ now < MaxTime
    /\ now' = now + 1
    /\ ticked' = FALSE
    /\ last' = Pending
    /\ UNCHANGED <<catVars, activeScripts, scriptVersions, running, stopClosed, loopAlive,
                   panicked, tick, facVars, groupConfig>>

\* ------------------------------------------------------------ the Factory
\* channel types with a built-in constructor (channelRegistry)
StaticTypes == {2}

\* the channel type a group references (fixed per group)
GroupType(g) == ((g - 1) % NumTypes) + 1

\* a registration that is lost: the map is left as it was
RegisterNothing(dyn, ct, s) == dyn

\* Factory.RegisterDynamicChannel: the constructor closes over the script read
\* by the caller, and replaces any constructor registered for the type
RegisterDynamicChannel(dyn, ct, s) == [dyn EXCEPT ![ct] = s]

\* an unregistration that leaves the constructor in the map
KeepDynamicChannel(dyn, ct) == dyn

\* Factory.UnregisterDynamicChannel: deletes the constructor, nothing else
UnregisterDynamicChannel(dyn, ct) == [dyn EXCEPT ![ct] = NoScript]

\* Factory.IsDynamicChannel
IsDynamicChannel(dyn, ct) == dyn[ct] # NoScript

\* a staleness test that trusts every cached instance
ConfigNeverStale(inst, g, cfg) == FALSE

\* BaseChannel.IsConfigStale: the instance was built for another configuration
IsConfigStale(inst, g, cfg) == inst.cfg # cfg \/ inst.ct # GroupType(g)

\* a group configuration whose list of upstreams is empty
NoUpstreams == 0

\* Factory.newBaseChannel: fails without at least one upstream
newBaseChannel(cfg) == cfg # NoUpstreams

\* a failing GetChannel that drops the entry of the group from the cache
DropOnFailure(cache, g) == [cache EXCEPT ![g] = NoChannel]

\* the cache after a GetChannel that returns an error: every failing branch
\* returns before the assignment to channelCache
FailedGet(cache, g) == cache

\* channel.NewScriptChannel: sandbox runtime, then exports()
NewScriptChannel(s) == NewScriptRuntime(s) /\ ExportsCall(s)

ScriptInstance(g, s, cfg) == [kind |-> "script", ct |-> GroupType(g), src |-> s, cfg |-> cfg]
StaticInstance(g, cfg)    == [kind |-> "static", ct |-> GroupType(g), src |-> 0, cfg |-> cfg]

\* the row createScriptChannel's query returns (First orders by primary key)
EnabledOfType(cat, ct) ==
    {i \in Present(cat) : cat[i].status = "enabled" /\ cat[i].channel_type = ct}

MinOf(S) == CHOOSE x \in S : \A y \in S : x <= y

\* the observer record of a GetChannel call: the group, whether a channel was
\* returned (it is then channelCache[g]) and which branch answered
GetObs(g, ok, how) == [op |-> "get", g |-> g, ok |-> ok, how |-> how]

\* a Factory that consults the built-in registry before the dynamic one
ConstructorStaticFirst(dyn, ct) ==
    IF ct \in StaticTypes THEN "static"
    ELSE IF IsDynamicChannel(dyn, ct) THEN "dynamic"
    ELSE "lazy"

\* the source GetChannel constructs from (lines 79-105): the dynamic
\* constructor of the type, else the static one, else createScriptChannel
Constructor(dyn, ct) ==
    IF IsDynamicChannel(dyn, ct) THEN "dynamic"
    ELSE IF ct \in StaticTypes THEN "static"
    ELSE "lazy"

\* a failed lazy bind that leaves the row as it is
KeepScriptStatus(row, t) == row

\* the Updates of createScriptChannel (lines 128-132) on the row it read
MarkScriptError(row, t) ==
    [row EXCEPT !.status = "error", !.err = TRUE, !.updated_at = t]

\* Factory.GetChannel, under cacheLock from the first line to the return
GetChannel(g) ==
    LET ct     == GroupType(g)
        cfg    == groupConfig[g]
        cached == channelCache[g]
        from   == Constructor(dynamicChannels, ct)
    IN
    /\ IF cached # NoChannel /\ ~IsConfigStale(cached, g, cfg)
         THEN /\ last' = GetObs(g, TRUE, "cache")
              /\ UNCHANGED <<channelCache, catalogue>>
         ELSE IF from = "dynamic"
         THEN IF newBaseChannel(cfg) /\ NewScriptChannel(dynamicChannels[ct])
              THEN /\ channelCache' = [channelCache EXCEPT
                          ![g] = ScriptInstance(g, dynamicChannels[ct], cfg)]
                   /\ last' = GetObs(g, TRUE, "dynamic")
                   /\ UNCHANGED catalogue
              ELSE /\ last' = GetObs(g, FALSE, "dynamic")
                   /\ channelCache' = FailedGet(channelCache, g)
                   /\ UNCHANGED catalogue
         ELSE IF from = "static"
         THEN IF newBaseChannel(cfg)
              THEN /\ channelCache' = [channelCache EXCEPT ![g] = StaticInstance(g, cfg)]
                   /\ last' = GetObs(g, TRUE, "static")
                   /\ UNCHANGED catalogue
              ELSE /\ last' = GetObs(g, FALSE, "static")
                   /\ channelCache' = FailedGet(channelCache, g)
                   /\ UNCHANGED catalogue
         ELSE \* createScriptChannel: lazy bind to the enabled row of the type
              IF EnabledOfType(catalogue, ct) = {}
              THEN /\ last' = GetObs(g, FALSE, "noscript")
                   /\ channelCache' = FailedGet(channelCache, g)
                   /\ UNCHANGED catalogue
              ELSE LET id == MinOf(EnabledOfType(catalogue, ct)) IN
                   IF newBaseChannel(cfg) /\ NewScriptChannel(catalogue[id].script)
                   THEN /\ channelCache' = [channelCache EXCEPT
                               ![g] = ScriptInstance(g, catalogue[id].script, cfg)]
                        /\ last' = GetObs(g, TRUE, "lazy")
                        /\ UNCHANGED catalogue
                   ELSE /\ catalogue' = [catalogue EXCEPT
                               ![id] = MarkScriptError(catalogue[id], now)]
                        /\ last' = GetObs(g, FALSE, "lazy")
                        /\ channelCache' = FailedGet(channelCache, g)
    /\ UNCHANGED <<nextId, pc, now, mgrVars, dynamicChannels, groupConfig>>

\* Factory.InvalidateCache
InvalidateCache(cache, g) == [cache EXCEPT ![g] = NoChannel]

\* the group manager saves another configuration for a group
UpdateGroup(g, c) ==
    /\ c # groupConfig[g]
    /\ groupConfig' = [groupConfig EXCEPT ![g] = c]
    /\ last' = Pending
    /\ UNCHANGED <<catVars, now, mgrVars, facVars>>

\* ---------------------------------------------------------- ScriptManager
\* versionHash of checkForUpdates / loadAllEnabledScripts:
\* UpdatedAt formatted to the second, and the hash of the text
VersionHash(e) == <<e.updated_at, calculateScriptHash(e.script)>>

\* The controller and registry state the reload paths thread through their
\* loops: st = [dyn, active, versions, failed, loaded].
\* A loadScript that registers the constructor before it builds the runtime:
loadScriptEager(e, st) ==
    LET reg == [st EXCEPT !.dyn = RegisterDynamicChannel(st.dyn, e.channel_type, e.script),
                          !.active = st.active \cup {e.channel_type}]
    IN IF NewScriptRuntime(e.script)
       THEN [reg EXCEPT !.loaded = st.loaded \cup {e.id}]
       ELSE [reg EXCEPT !.failed = st.failed \cup {e.id}]

\* A loadScript that treats a channel type that is already active as a
\* conflict and tears it down:
loadScriptOnce(e, st) ==
    IF e.channel_type \in st.active
    THEN [st EXCEPT !.dyn = UnregisterDynamicChannel(st.dyn, e.channel_type),
                    !.active = st.active \ {e.channel_type},
                    !.failed = st.failed \cup {e.id}]
    ELSE IF NewScriptRuntime(e.script)
    THEN [st EXCEPT !.dyn = RegisterDynamicChannel(st.dyn, e.channel_type, e.script),
                    !.active = st.active \cup {e.channel_type},
                    !.loaded = st.loaded \cup {e.id}]
    ELSE [st EXCEPT !.failed = st.failed \cup {e.id}]

\* ScriptManager.loadScript: build the runtime first; only a successful build
\* registers the constructor and records the type as active.
loadScript(e, st) ==
    IF NewScriptRuntime(e.script)
    THEN [st EXCEPT !.dyn = RegisterDynamicChannel(st.dyn, e.channel_type, e.script),
                    !.active = st.active \cup {e.channel_type},
                    !.loaded = st.loaded \cup {e.id}]
    ELSE [st EXCEPT !.failed = st.failed \cup {e.id}]

LoadOK(e, st) == e.id \in loadScript(e, st).loaded

\* the entry the loops visit next (rows come back in primary-key order)
FirstOf(list) == CHOOSE e \in list : \A f \in list : e.id <= f.id

\* one iteration of the loop of checkForUpdates (lines 669-692)
CheckOne(e, st) ==
    IF st.versions[e.id] # VersionHash(e)
    THEN IF LoadOK(e, [st EXCEPT !.loaded = {}])
         THEN [loadScript(e, st) EXCEPT !.versions[e.id] = VersionHash(e)]
         ELSE loadScript(e, st)
    ELSE st

RECURSIVE CheckLoop(_, _)
CheckLoop(list, st) ==
    IF list = {} THEN st
    ELSE CheckLoop(list \ {FirstOf(list)}, CheckOne(FirstOf(list), st))

\* the loop of lines 695-701: types that are active and not in the fetched list
RemoveInactive(st, current) ==
    LET gone == st.active \ current IN
    [st EXCEPT !.active = st.active \cap current,
               !.dyn = [ct \in ChannelTypes |->
                          IF ct \in gone THEN UnregisterDynamicChannel(st.dyn, ct)[ct]
                          ELSE st.dyn[ct]]]

\* one iteration of the loop of loadAllEnabledScripts (lines 713-722)
LoadOne(e, st) ==
    IF LoadOK(e, [st EXCEPT !.loaded = {}])
    THEN [loadScript(e, st) EXCEPT !.versions[e.id] = VersionHash(e)]
    ELSE loadScript(e, st)

RECURSIVE LoadLoop(_, _)
LoadLoop(list, st) ==
    IF list = {} THEN st
    ELSE LoadLoop(list \ {FirstOf(list)}, LoadOne(FirstOf(list), st))

\* ScriptManager.loadAllEnabledScripts
loadAllEnabledScripts(cat, st) == LoadLoop(GetEnabledScripts(cat), st)

MgrState ==
    [dyn |-> dynamicChannels, active |-> activeScripts, versions |-> scriptVersions,
     failed |-> {}, loaded |-> {}]

\* the observer record of a controller call: id is the row of a ReloadScript
\* (the outcome code of Start and Stop), failed the rows whose loadScript
\* returned an error, removed the channel types the call unregistered
MgrObs(op, id, failed, removed) ==
    [op |-> op, id |-> id, failed |-> failed, removed |-> removed]

Install(st) ==
    /\ dynamicChannels' = st.dyn
    /\ activeScripts' = st.active
    /\ scriptVersions' = st.versions

\* reloadLoop receives from the ticker; checkForUpdates fetches the enabled
\* rows before it takes the controller mutex.  The ticker period (30 s) puts
\* consecutive ticks in different seconds.
TickRead ==
    /\ loopAlive > 0 /\ ~stopClosed
    /\ tick = NoTick
    /\ ~ticked
    /\ tick' = [at |-> "body", list |-> GetEnabledScripts(catalogue)]
    /\ ticked' = TRUE
    /\ last' = Pending
    /\ UNCHANGED <<catVars, now, activeScripts, scriptVersions, running, stopClosed,
                   loopAlive, panicked, facVars, groupConfig>>

\* checkForUpdates from the Lock of line 663 to the return
TickBody ==
    LET current == {e.channel_type : e \in tick.list}
        st1     == CheckLoop(tick.list, MgrState)
        st2     == RemoveInactive(st1, current)
    IN
    /\ tick # NoTick
    /\ Install(st2)
    /\ tick' = NoTick
    /\ last' = MgrObs("tick", 0, st2.failed, st1.active \ current)
    /\ UNCHANGED <<catVars, now, running, stopClosed, loopAlive, panicked, ticked,
                   channelCache, groupConfig>>

\* ScriptManager.ReloadScript (POST /scripts/:id/reload), under the mutex
ReloadScript(id) ==
    LET row == catalogue[id]
        e   == [id |-> id, channel_type |-> row.channel_type, script |-> row.script,
                updated_at |-> row.updated_at]
    IN
    /\ IF row = NoRow
         THEN /\ last' = MgrObs("reloadOne", 0, {}, {})
              /\ UNCHANGED <<dynamicChannels, activeScripts, scriptVersions>>
         ELSE IF row.status # "enabled"
         THEN /\ activeScripts' = activeScripts \ {row.channel_type}
              /\ scriptVersions' = [scriptVersions EXCEPT ![id] = NoVersion]
              /\ dynamicChannels' = UnregisterDynamicChannel(dynamicChannels, row.channel_type)
              /\ last' = MgrObs("reloadOne", id, {}, {row.channel_type})
         ELSE /\ Install(loadScript(e, MgrState))
              /\ last' = MgrObs("reloadOne", id, loadScript(e, MgrState).failed, {})
    /\ UNCHANGED <<catVars, now, running, stopClosed, loopAlive, panicked, tick, ticked,
                   channelCache, groupConfig>>

\* ScriptManager.ReloadAllScripts (POST /scripts/reload-all), under the mutex
ReloadAllScripts ==
    LET st == loadAllEnabledScripts(catalogue, MgrState) IN
    /\ Install(st)
    /\ last' = MgrObs("reloadAll", 0, st.failed, {})
    /\ UNCHANGED <<catVars, now, running, stopClosed, loopAlive, panicked, tick, ticked,
                   channelCache, groupConfig>>

\* ScriptManager.Start: initial load, then the reloadLoop goroutine and its ticker
Start ==
    LET st == loadAllEnabledScripts(catalogue, MgrState) IN
    /\ IF running
         THEN /\ last' = MgrObs("start", 0, {}, {})
              /\ UNCHANGED <<dynamicChannels, activeScripts, scriptVersions, running,
                             loopAlive, ticked>>
         ELSE /\ Install(st)
              /\ running' = TRUE
              /\ loopAlive' = loopAlive + 1
              /\ ticked' = TRUE
              /\ last' = MgrObs("start", 1, st.failed, {})
    /\ UNCHANGED <<catVars, now, stopClosed, panicked, tick, channelCache, groupConfig>>

\* ScriptManager.Stop: close(stopChan); closing it a second time panics
Stop ==
    /\ IF ~running
         THEN /\ last' = MgrObs("stop", 0, {}, {})
              /\ UNCHANGED <<running, stopClosed, panicked>>
         ELSE IF stopClosed
         THEN /\ panicked' = TRUE
              /\ last' = MgrObs("stop", 2, {}, {})
              /\ UNCHANGED <<running, stopClosed>>
         ELSE /\ stopClosed' = TRUE
              /\ running' = FALSE
              /\ last' = MgrObs("stop", 1, {}, {})
              /\ UNCHANGED panicked
    /\ UNCHANGED <<catVars, now, activeScripts, scriptVersions, loopAlive, tick, ticked,
                   facVars, groupConfig>>

\* a reloadLoop goroutine receives from the closed stopChan and returns
LoopExit ==
    /\ loopAlive > 0 /\ stopClosed /\ tick = NoTick
    /\ loopAlive' = loopAlive - 1
    /\ last' = Pending
    /\ UNCHANGED <<catVars, now, activeScripts, scriptVersions, running, stopClosed,
                   panicked, tick, ticked, facVars, groupConfig>>

\* ------------------------------------------------------- ScriptRuntime
\* time.Minute in seconds, and the two limits of the rate limiters
Minute    == 60
HttpLimit == 10
LogLimit  == 50

MaxClock    == 121    \* the runtime's clock stops here
MaxCalls    == 13     \* utils.httpRequest calls made on one runtime
MaxLogCalls == 52     \* log calls made on one runtime

\* how far the clock moves between two calls: just inside a minute, a minute,
\* just beyond it
AdvanceSteps == {59, 60, 61}

\* the zero time.Time: further than a minute before any clock reading
ZeroTime == 0 - Minute

\* the fields NewScriptRuntime leaves at their zero values
NewRuntimeFields ==
    [httpRequestCount |-> 0, lastRequestTime |-> ZeroTime,
     logCount |-> 0, lastLogTime |-> ZeroTime]

NoTime == 0 - 1
\* The observer counts calls by the minute they fall in: a minute starts with
\* the first call ever and with the first call made a minute or more after
\* the start of the previous one.  total: calls so far; calls: calls in the
\* current minute; first: its start; passed: the times of the latest calls the
\* limiter let through; prev: the time of the latest call.  validated: one
\* earlier call of the validation endpoint (its input and answer), kept to
\* compare later calls with.
NoHistory ==
    [total |-> 0, calls |-> 0, first |-> NoTime, passed |-> <<>>,
     logTotal |-> 0, logCalls |-> 0, logFirst |-> NoTime, logPrev |-> NoTime,
     validated |-> <<>>]

NewMinute(total, first, t) == total = 0 \/ t - first >= Minute

\* A host as the URL gate sees it: its text, the class net.ParseIP and the
\* net.IP predicates give it ("name" when it is no IP literal), whether the
\* text contains "local", and whether it matches ^[a-zA-Z0-9.-]+$
Host(text, ip, local, plain) == [text |-> text, ip |-> ip, local |-> local, plain |-> plain]

Hosts ==
    { Host("api.example.com", "name", FALSE, TRUE),
      Host("8.8.8.8", "public", FALSE, TRUE),
      Host("localhost", "name", TRUE, TRUE),
      Host("printer.local", "name", TRUE, TRUE),
      Host("127.0.0.1", "loopback", FALSE, TRUE),
      Host("::1", "loopback", FALSE, FALSE),
      Host("10.0.0.5", "private", FALSE, TRUE),
      Host("169.254.169.254", "linklocal", FALSE, TRUE),
      Host("", "name", FALSE, FALSE) }

Schemes == {"http", "ftp"}
Urls    == [scheme : Schemes, host : Hosts]
NoUrl   == [scheme |-> "none"]

\* ScriptRuntime.isPrivateOrLocalhost
isPrivateOrLocalhost(h) ==
    IF h.text \in {"localhost", "127.0.0.1", "::1"} THEN TRUE
    ELSE IF h.ip = "name" THEN h.local
    ELSE h.ip \in {"loopback", "private", "linklocal"}

\* ScriptRuntime.validateURL: TRUE when the URL is let through
validateURL(u) ==
    /\ u.scheme \in {"http", "https"}
    /\ u.host.text # ""
    /\ ~isPrivateOrLocalhost(u.host)
    /\ u.host.plain

\* the rate limiter of utils.httpRequest with <= for <
httpRateLimitLate(r, t) ==
    IF t - r.lastRequestTime <= Minute
    THEN [r EXCEPT !.httpRequestCount = @ + 1]
    ELSE [r EXCEPT !.httpRequestCount = 1, !.lastRequestTime = t]

\* the rate limiter of utils.httpRequest (lines 148-160): the fields after
\* the call at time t
httpRateLimit(r, t) ==
    IF t - r.lastRequestTime < Minute
    THEN [r EXCEPT !.httpRequestCount = @ + 1]
    ELSE [r EXCEPT !.httpRequestCount = 1, !.lastRequestTime = t]

\* the call panics with "rate limit exceeded"
httpRateExceeded(r, t) == httpRateLimit(r, t).httpRequestCount > HttpLimit

\* http.Client.Do with the default redirect policy: the first target, and the
\* target of the Location header it answers with when that is http or https
ClientDo(u, redirect) ==
    IF redirect # NoUrl /\ redirect.scheme \in {"http", "https"}
    THEN {u, redirect} ELSE {u}

KeepLast(s, n) == IF Len(s) > n THEN SubSeq(s, Len(s) - n + 1, Len(s)) ELSE s

HttpObs(pass, err, contacted) ==
    [op |-> "http", pass |-> pass, err |-> err, contacted |-> contacted]

\* utils.httpRequest(request) called by the script at the current time.
\* reqErr: what the request object trips over after the URL gate ("-":
\* nothing); redirect: the Location the first target answers with, if any.
HttpRequest(u, reqErr, redirect) ==
    LET r2   == httpRateLimit(rt, now)
        pass == ~httpRateExceeded(rt, now)
    IN
    /\ hist.total < MaxCalls
    /\ rt' = r2
    /\ hist' = [hist EXCEPT
                  !.total = @ + 1,
                  !.calls = IF NewMinute(hist.total, hist.first, now) THEN 1 ELSE @ + 1,
                  !.first = IF NewMinute(hist.total, hist.first, now) THEN now ELSE @,
                  !.passed = IF pass THEN KeepLast(Append(@, now), HttpLimit + 1) ELSE @]
    /\ last' = IF ~pass THEN HttpObs(FALSE, "rate", {})
               ELSE IF ~validateURL(u) THEN HttpObs(TRUE, "url", {})
               ELSE IF reqErr # "-" THEN HttpObs(TRUE, reqErr, {})
               ELSE HttpObs(TRUE, "-", ClientDo(u, redirect))
    /\ UNCHANGED <<catVars, now, mgrVars, facVars, groupConfig, client, inflight, locks>>

\* the rate limiter of the log functions with the limit one lower
logRateLimitShort(r, t) ==
    IF t - r.lastLogTime < Minute
    THEN [r EXCEPT !.logCount = @ + 2]
    ELSE [r EXCEPT !.logCount = 1, !.lastLogTime = t]

\* the rate limiter of the log functions (lines 369-381)
logRateLimit(r, t) ==
    IF t - r.lastLogTime < Minute
    THEN [r EXCEPT !.logCount = @ + 1]
    ELSE [r EXCEPT !.logCount = 1, !.lastLogTime = t]

logRateExceeded(r, t) == logRateLimit(r, t).logCount > LogLimit

\* the eight functions createLogFunc is bound to (setupEnvironment)
LogFns == {"utils.log.debug", "utils.log.info", "utils.log.warn", "utils.log.error",
           "console.log", "console.error", "console.warn", "console.debug"}

LogObs(fn, emitted) == [op |-> "log", fn |-> fn, emitted |-> emitted, err |-> FALSE]

\* a call of one of the log functions; without an argument it returns at once
LogCall(fn, hasArg) ==
    /\ hist.logTotal < MaxLogCalls
    /\ IF ~hasArg
         THEN /\ last' = LogObs(fn, FALSE)
              /\ UNCHANGED <<rt, hist, locks>>
         ELSE /\ rt' = logRateLimit(rt, now)
              /\ hist' = [hist EXCEPT
                            !.logTotal = @ + 1,
                            !.logCalls = IF NewMinute(hist.logTotal, hist.logFirst, now)
                                         THEN 1 ELSE @ + 1,
                            !.logFirst = IF NewMinute(hist.logTotal, hist.logFirst, now)
                                         THEN now ELSE @,
                            !.logPrev = now]
              /\ last' = LogObs(fn, ~logRateExceeded(rt, now))
    /\ UNCHANGED <<catVars, now, mgrVars, facVars, groupConfig, client, inflight, locks>>

\* time passes between two calls of the script
RuntimeClock(d) ==
    /\ now + d <= MaxClock
    /\ now' = now + d
    /\ last' = Pending
    /\ UNCHANGED <<catVars, mgrVars, facVars, groupConfig, auxVars>>

\* --------------------------------------------------------- specifications
Init ==
    /\ catalogue = [i \in Ids |-> NoRow]
    /\ nextId = 1
    /\ pc = [p \in Procs |-> Idle]
    /\ now = 0
    /\ activeScripts = {}
    /\ scriptVersions = [i \in Ids |-> NoVersion]
    /\ running = FALSE
    /\ stopClosed = FALSE
    /\ loopAlive = 0
    /\ panicked = FALSE
    /\ tick = NoTick
    /\ ticked = FALSE
    /\ dynamicChannels = [ct \in ChannelTypes |-> NoScript]
    /\ channelCache = [g \in Groups |-> NoChannel]
    /\ groupConfig = [g \in Groups |-> 1]
    /\ last = [op |-> "init"]
    /\ client = NoClient
    /\ inflight = [p \in Procs |-> NoRequest]
    /\ rt = NewRuntimeFields
    /\ hist = NoHistory
    /\ locks = NoLocks

\* the administrative API on the catalogue, NumProcs requests in flight
NextCatalogue ==
    \/ \E p \in Procs, ct \in ChannelTypes, s \in CatSources : CreateBegin(p, ct, s) /\ UNCHANGED auxVars
    \/ \E p \in Procs : CreateInsert(p) /\ UNCHANGED auxVars
    \/ \E id \in Ids, s \in CatSources \cup {0}, ct \in ChannelTypes \cup {0} :
          UpdateScriptMap(id, s, ct) /\ UNCHANGED auxVars
    \/ \E id \in Ids, s \in CatSources : HandlerUpdateScript(id, s) /\ UNCHANGED auxVars
    \/ \E p \in Procs, id \in Ids : EnableBegin(p, id) /\ UNCHANGED auxVars
    \/ \E p \in Procs : EnableDisableOthers(p) /\ UNCHANGED auxVars
    \/ \E p \in Procs, reinsert \in BOOLEAN : EnableSave(p, reinsert) /\ UNCHANGED auxVars
    \/ \E id \in Ids : DisableScript(id) /\ UNCHANGED auxVars
    \/ \E id \in Ids : DeleteScript(id) /\ UNCHANGED auxVars

SpecCatalogue == Init /\ [][NextCatalogue]_vars

\* the whole runtime: the administrative API, the reload loop, the explicit
\* reloads and the proxy path.  One administrative request is in flight at a
\* time and its statements run back to back: the controller and the proxy
\* path write the table only in GetChannel's lazy bind, so a reload between
\* two statements of a request sees a table it also sees between two requests.
\* The texts submitted here are those that pass validation.
ReloadRows    == 1
ReloadGroups  == {1}
ReloadSources == {s \in Sources : ValidateScript(s)}

Quiet == ~panicked /\ pc[1] = Idle

Next ==
    \/ \E ct \in ChannelTypes, s \in ReloadSources :
          Quiet /\ nextId <= ReloadRows /\ CreateBegin(1, ct, s) /\ UNCHANGED auxVars
    \/ CreateInsert(1) /\ UNCHANGED auxVars
    \/ \E id \in Ids, s \in ReloadSources : Quiet /\ HandlerUpdateScript(id, s) /\ UNCHANGED auxVars
    \/ \E id \in Ids : Quiet /\ EnableBegin(1, id) /\ UNCHANGED auxVars
    \/ EnableDisableOthers(1) /\ UNCHANGED auxVars
    \/ \E reinsert \in BOOLEAN : EnableSave(1, reinsert) /\ UNCHANGED auxVars
    \/ \E id \in Ids : Quiet /\ DisableScript(id) /\ UNCHANGED auxVars
    \/ \E id \in Ids : Quiet /\ DeleteScript(id) /\ UNCHANGED auxVars
    \/ Quiet /\ Start /\ UNCHANGED auxVars
    \/ Quiet /\ TickRead /\ UNCHANGED auxVars
    \/ Quiet /\ TickBody /\ UNCHANGED auxVars
    \/ \E id \in Ids : Quiet /\ ReloadScript(id) /\ UNCHANGED auxVars
    \/ Quiet /\ ReloadAllScripts /\ UNCHANGED auxVars
    \/ \E g \in ReloadGroups : Quiet /\ GetChannel(g) /\ UNCHANGED auxVars
    \/ Quiet /\ AdvanceClock /\ UNCHANGED auxVars

Spec == Init /\ [][Next]_vars

\* one runtime's utils.httpRequest under calls of the script; the first target
\* answers without a Location header or with one of three
Locations ==
    {NoUrl} \cup
    {u \in Urls : (u.scheme = "http" /\ u.host.text \in {"api.example.com", "127.0.0.1"})
                     \/ (u.scheme = "ftp" /\ u.host.text = "api.example.com")}

NextHttp ==
    \/ \E u \in Urls, reqErr \in {"-", "body"}, redirect \in Locations :
          HttpRequest(u, reqErr, redirect)
    \/ \E d \in AdvanceSteps : RuntimeClock(d)

SpecHttp == Init /\ [][NextHttp]_vars

\* one runtime's log functions under calls of the script
NextLog ==
    \/ \E fn \in LogFns, hasArg \in BOOLEAN : LogCall(fn, hasArg)
    \/ \E d \in AdvanceSteps : RuntimeClock(d)

SpecLog == Init /\ [][NextLog]_vars

\* ------------------------------------------------- a client of the API
\* A client issues the calls of client.todo on entry client.id one after the
\* other, each after the previous one has returned; client.start is the row
\* as it was before the first call, client.n the number of calls returned.
ClientHead(op) == client # NoClient /\ client.todo # <<>> /\ Head(client.todo) = op

ClientReturned == [client EXCEPT !.todo = Tail(@), !.n = @ + 1]

ClientEnableBegin ==
    /\ ClientHead("enable")
    /\ EnableBegin(1, client.id)
    /\ client' = IF pc'[1] = Idle THEN ClientReturned ELSE client
    /\ UNCHANGED <<inflight, rt, hist, locks>>

ClientEnableOthers ==
    /\ ClientHead("enable")
    /\ EnableDisableOthers(1)
    /\ UNCHANGED auxVars

ClientEnableSave ==
    /\ ClientHead("enable")
    /\ \E reinsert \in BOOLEAN : EnableSave(1, reinsert)
    /\ client' = ClientReturned
    /\ UNCHANGED <<inflight, rt, hist, locks>>

ClientDisable ==
    /\ ClientHead("disable")
    /\ DisableScript(client.id)
    /\ client' = ClientReturned
    /\ UNCHANGED <<inflight, rt, hist, locks>>

\* the rows a catalogue can hold for a source that passes validation: error
\* fields are set by a failed lazy bind together with status error, survive a
\* disable and an update, and are cleared by enable
ClientRows ==
    {Row(ct, s, st, e, 0) : ct \in ChannelTypes, s \in ReloadSources,
                            st \in {"disabled", "error", "enabled"}, e \in BOOLEAN}

ClientCatalogues ==
    {cat \in [Ids -> ClientRows \cup {NoRow}] :
        /\ \A i \in Present(cat) : /\ cat[i].status = "error" => cat[i].err
                                   /\ cat[i].status = "enabled" => ~cat[i].err
        /\ \A i \in Present(cat), j \in Present(cat) :
              cat[i].channel_type = cat[j].channel_type => i = j}

ClientPrograms == {<<"enable">>, <<"enable", "disable", "enable">>}

InitClient ==
    /\ catalogue \in ClientCatalogues
    /\ nextId = MaxScripts + 1
    /\ pc = [p \in Procs |-> Idle]
    /\ now = 0
    /\ activeScripts = {}
    /\ scriptVersions = [i \in Ids |-> NoVersion]
    /\ running = FALSE
    /\ stopClosed = FALSE
    /\ loopAlive = 0
    /\ panicked = FALSE
    /\ tick = NoTick
    /\ ticked = FALSE
    /\ dynamicChannels = [ct \in ChannelTypes |-> NoScript]
    /\ channelCache = [g \in Groups |-> NoChannel]
    /\ groupConfig = [g \in Groups |-> 1]
    /\ last = [op |-> "init"]
    /\ \E i \in Present(catalogue), prog \in ClientPrograms :
          client = [id |-> i, todo |-> prog, start |-> catalogue[i], n |-> 0]
    /\ inflight = [p \in Procs |-> NoRequest]
    /\ rt = NewRuntimeFields
    /\ hist = NoHistory
    /\ locks = NoLocks

NextClient ==
    \/ ClientEnableBegin
    \/ ClientEnableOthers
    \/ ClientEnableSave
    \/ ClientDisable
    \/ AdvanceClock /\ UNCHANGED auxVars

SpecClient == InitClient /\ [][NextClient]_vars

\* ------------------------------------------------------ the proxy path
\* the hook entry points of a ScriptChannel
Hooks == {"buildUpstreamURL", "modifyRequest", "isStreamRequest", "extractModel",
          "validateKey"}

\* a hook that looks its adapter up in the registry on every call
HookAdapterCurrent(inst, dyn) == dyn[inst.ct]

\* the script a hook of a Channel Instance runs: the one of sc.runtime and
\* sc.channel, set by NewScriptChannel and never assigned again
HookAdapter(inst, dyn) == inst.src

HookObs(p, h, s) == [op |-> "hook", p |-> p, h |-> h, src |-> s]

\* A proxy request calls Factory.GetChannel for its group and keeps the
\* instance returned.  cached: the instance is still the one in the cache
\* (a later construction for the group replaces the cache entry).
ProxyGetChannel(p, g) ==
    /\ inflight[p] = NoRequest
    /\ GetChannel(g)
    /\ inflight' = [q \in Procs |->
          IF q = p
          THEN IF last'.ok
               THEN [at |-> "held", g |-> g, inst |-> channelCache'[g], cached |-> TRUE]
               ELSE NoRequest
          ELSE IF inflight[q] # NoRequest /\ inflight[q].g = g
                  /\ last'.ok /\ last'.how # "cache"
               THEN [inflight[q] EXCEPT !.cached = FALSE]
               ELSE inflight[q]]
    /\ UNCHANGED <<client, rt, hist, locks>>

\* the request calls hook h of its instance: the method takes no lock
HookEnter(p, h) ==
    /\ inflight[p] # NoRequest /\ inflight[p].at = "held"
    /\ inflight' = [inflight EXCEPT ![p].at = "hook"]
    /\ last' = HookObs(p, h, HookAdapter(inflight[p].inst, dynamicChannels))
    /\ UNCHANGED <<catVars, now, mgrVars, facVars, groupConfig, client, rt, hist, locks>>

\* the hook returns
HookExit(p) ==
    /\ inflight[p] # NoRequest /\ inflight[p].at = "hook"
    /\ inflight' = [inflight EXCEPT ![p].at = "held"]
    /\ last' = Pending
    /\ UNCHANGED <<catVars, now, mgrVars, facVars, groupConfig, client, rt, hist, locks>>

\* the request is answered and drops the instance
ProxyDone(p) ==
    /\ inflight[p] # NoRequest /\ inflight[p].at = "held"
    /\ inflight' = [inflight EXCEPT ![p] = NoRequest]
    /\ last' = Pending
    /\ UNCHANGED <<catVars, now, mgrVars, facVars, groupConfig, client, rt, hist, locks>>

\* The proxy path next to reloads: entry 1 (type 1, a script that builds) has
\* been created and enabled, the controller has been started and its ticker
\* is due (one second has passed since Start); the clock then stands still, so
\* the ticker fires once.
ProxySources == {s \in Sources : NewScriptChannel(s)}

InitProxy ==
    /\ \E s \in ProxySources :
          /\ catalogue = [i \in Ids |-> IF i = 1 THEN Row(1, s, "enabled", FALSE, 0) ELSE NoRow]
          /\ dynamicChannels = [ct \in ChannelTypes |-> IF ct = 1 THEN s ELSE NoScript]
          /\ scriptVersions = [i \in Ids |->
                IF i = 1 THEN VersionHash([updated_at |-> 0, script |-> s]) ELSE NoVersion]
    /\ nextId = 2
    /\ pc = [p \in Procs |-> Idle]
    /\ now = 1
    /\ activeScripts = {1}
    /\ running = TRUE
    /\ stopClosed = FALSE
    /\ loopAlive = 1
    /\ panicked = FALSE
    /\ tick = NoTick
    /\ ticked = FALSE
    /\ channelCache = [g \in Groups |-> NoChannel]
    /\ groupConfig = [g \in Groups |-> 1]
    /\ last = [op |-> "init"]
    /\ client = NoClient
    /\ inflight = [p \in Procs |-> NoRequest]
    /\ rt = NewRuntimeFields
    /\ hist = NoHistory
    /\ locks = NoLocks

NextProxy ==
    \/ \E s \in ProxySources : HandlerUpdateScript(1, s) /\ UNCHANGED auxVars
    \/ DisableScript(1) /\ UNCHANGED auxVars
    \/ ReloadScript(1) /\ UNCHANGED auxVars
    \/ TickRead /\ UNCHANGED auxVars
    \/ TickBody /\ UNCHANGED auxVars
    \/ \E g \in ReloadGroups, c \in Configs : UpdateGroup(g, c) /\ UNCHANGED auxVars
    \/ \E p \in Procs, g \in ReloadGroups : ProxyGetChannel(p, g)
    \/ \E p \in Procs, h \in Hooks : HookEnter(p, h)
    \/ \E p \in Procs : HookExit(p)
    \/ \E p \in Procs : ProxyDone(p)

SpecProxy == InitProxy /\ [][NextProxy]_vars

\* ------------------------------------------------- the hooks' results
\* What a hook call hands back to the Go side: the error of the goja call
\* (JsThrow) or a JavaScript value.  text is Value.String(), truthy is
\* Value.ToBoolean().
JsThrow     == [t |-> "throw"]
JsUndefined == [t |-> "undefined", text |-> "undefined", truthy |-> FALSE]
JsNull      == [t |-> "null", text |-> "null", truthy |-> FALSE]
JsNumber    == [t |-> "number", text |-> "42", truthy |-> TRUE]
JsObject    == [t |-> "object", text |-> "[object Object]", truthy |-> TRUE]
JsString(s) == [t |-> "string", text |-> s, truthy |-> s # ""]
JsBool(b)   == [t |-> "boolean", text |-> IF b THEN "true" ELSE "false", truthy |-> b]

\* a property that is not there: Object.Get returns nil
Absent == "absent"

\* the record validateKey is to answer with, and a promise resolved with it
KeyRecord(valid, error) ==
    [t |-> "object", text |-> "[object Object]", truthy |-> TRUE,
     valid |-> valid, error |-> error]
JsPromise(v) ==
    [t |-> "promise", text |-> "[object Promise]", truthy |-> TRUE, value |-> v]

KeyRecords == {KeyRecord(v, e) : v \in {"true", "false", Absent},
                                 e \in {Absent, "quota exhausted"}}

\* Object.Get(name) on the object ToObject makes of a value: own fields of a
\* plain object; a promise, a number and an empty object have none of them
Get(v, name) ==
    IF v.t = "object" /\ name \in DOMAIN v THEN v[name] ELSE Absent

\* header names: as the adapter writes them, as the client sent them
WriteNames    == {"Authorization", "connection", "Upgrade", "x-trace"}
ClientHeaders == {"Accept"}

\* textproto.CanonicalMIMEHeaderKey, applied by Header.Set
CanonicalMIMEHeaderKey(n) ==
    CASE n = "connection" -> "Connection"
      [] n = "x-trace"    -> "X-Trace"
      [] OTHER            -> n

\* strings.ToLower of a header name
ToLower(n) ==
    CASE n = "Authorization" -> "authorization"
      [] n = "Connection"    -> "connection"
      [] n = "Upgrade"       -> "upgrade"
      [] n = "X-Trace"       -> "x-trace"
      [] n = "Accept"        -> "accept"
      [] OTHER               -> n

\* what the adapter did to request.headers in modifyRequest: the names it
\* wrote, whether it then threw, and whether it left an object there
HeaderEdit(written, threw, object) ==
    [t |-> "headers", written |-> written, threw |-> threw, object |-> object]

HeaderEdits ==
    {HeaderEdit(w, th, TRUE) : w \in SUBSET WriteNames, th \in BOOLEAN}
        \cup {HeaderEdit({}, FALSE, FALSE)}

\* the values each hook is called back with
HookResults(h) ==
    CASE h = "buildUpstreamURL" ->
            {JsThrow, JsUndefined, JsNull, JsNumber, JsObject,
             JsString("https://upstream.example/v1")}
      [] h = "modifyRequest" -> HeaderEdits
      [] h = "isStreamRequest" ->
            {JsThrow, JsUndefined, JsBool(TRUE), JsBool(FALSE), JsString("yes"),
             JsString(""), JsNumber, JsObject}
      [] h = "extractModel" -> {JsThrow, JsUndefined, JsString("model-x")}
      [] h = "validateKey" ->
            {JsThrow, JsUndefined, JsNumber} \cup KeyRecords
                \cup {JsPromise(r) : r \in KeyRecords}

\* what a hook method of ScriptChannel returns: ok (no Go error), the value,
\* the error text, and whether the method panicked (ToObject of undefined or
\* null)
HookOut(ok, value, err, panic) ==
    [ok |-> ok, value |-> value, err |-> err, panic |-> panic]

\* ScriptChannel.BuildUpstreamURL, lines 580-589
BuildUpstreamURL(res) ==
    IF res.t = "throw" THEN HookOut(FALSE, "", "JavaScript buildUpstreamURL failed", FALSE)
    ELSE HookOut(TRUE, res.text, "", FALSE)

\* ScriptChannel.ModifyRequest, lines 640-651: the result of the call is
\* dropped, then every key of request.headers is Set on the outbound request.
\* The value maps each outbound header to who wrote it last.
ModifyRequest(res) ==
    IF ~res.object THEN HookOut(TRUE, [n \in ClientHeaders |-> "client"], "", TRUE)
    ELSE LET set == {CanonicalMIMEHeaderKey(n) : n \in res.written} IN
         HookOut(TRUE,
                 [n \in ClientHeaders \cup set |-> IF n \in set THEN "script" ELSE "client"],
                 "", FALSE)

\* ScriptChannel.IsStreamRequest, lines 698-703
IsStreamRequest(res) ==
    IF res.t = "throw" THEN HookOut(TRUE, FALSE, "", FALSE)
    ELSE HookOut(TRUE, res.truthy, "", FALSE)

\* ScriptChannel.ExtractModel, lines 750-755
ExtractModel(res) ==
    IF res.t = "throw" THEN HookOut(TRUE, "", "", FALSE)
    ELSE HookOut(TRUE, res.text, "", FALSE)

\* ScriptChannel.ValidateKey, lines 785-808
ValidateKey(res) ==
    IF res.t = "throw" THEN HookOut(FALSE, FALSE, "JavaScript validateKey failed", FALSE)
    ELSE IF res.t \in {"undefined", "null"} THEN HookOut(FALSE, FALSE, "", TRUE)
    ELSE IF Get(res, "valid") = Absent
    THEN HookOut(FALSE, FALSE, "validateKey must return an object with 'valid' property", FALSE)
    ELSE IF Get(res, "valid") = "true" THEN HookOut(TRUE, TRUE, "", FALSE)
    ELSE IF Get(res, "error") # Absent THEN HookOut(FALSE, FALSE, Get(res, "error"), FALSE)
    ELSE HookOut(FALSE, FALSE, "key validation failed", FALSE)

HookReturn(h, res) ==
    CASE h = "buildUpstreamURL" -> BuildUpstreamURL(res)
      [] h = "modifyRequest"    -> ModifyRequest(res)
      [] h = "isStreamRequest"  -> IsStreamRequest(res)
      [] h = "extractModel"     -> ExtractModel(res)
      [] h = "validateKey"      -> ValidateKey(res)

\* the hook threw or answered with a value of the wrong type
HookErrored(h, res) ==
    CASE h = "buildUpstreamURL" -> res.t # "string"
      [] h = "modifyRequest"    -> res.threw \/ ~res.object
      [] h = "isStreamRequest"  -> res.t # "boolean"
      [] h = "extractModel"     -> res.t # "string"
      [] h = "validateKey"      -> res.t \notin {"object", "promise"}

\* hooks that drop the instance from the cache when the adapter misbehaves
EvictOnHookError(cache, g, errored) ==
    IF errored THEN [cache EXCEPT ![g] = NoChannel] ELSE cache

\* the Factory cache after a hook call: ScriptChannel holds no reference to
\* the Factory or the database, whatever the hook did
AfterHook(cache, g, errored) == cache

HookCallObs(p, h, s, res, out) ==
    [op |-> "hook", p |-> p, h |-> h, src |-> s, res |-> res, out |-> out]

\* one hook call of a request on the script instance it holds, from the call
\* into the adapter to the return of the ScriptChannel method
HookCall(p, h, res) ==
    /\ inflight[p] # NoRequest /\ inflight[p].at = "held"
    /\ inflight[p].inst.kind = "script"
    /\ last' = HookCallObs(p, h, HookAdapter(inflight[p].inst, dynamicChannels), res,
                           HookReturn(h, res))
    /\ channelCache' = AfterHook(channelCache, inflight[p].g, HookErrored(h, res))
    /\ UNCHANGED <<catVars, now, mgrVars, dynamicChannels, groupConfig, auxVars>>

\* One proxy request at a time calling the hooks of its instance, next to
\* updates, disables and reloads of the entry; starts as the proxy path does.
NextHooks ==
    \/ \E s \in ProxySources : HandlerUpdateScript(1, s) /\ UNCHANGED auxVars
    \/ DisableScript(1) /\ UNCHANGED auxVars
    \/ ReloadScript(1) /\ UNCHANGED auxVars
    \/ \E g \in ReloadGroups : ProxyGetChannel(1, g)
    \/ \E h \in Hooks : \E res \in HookResults(h) : HookCall(1, h, res)
    \/ ProxyDone(1)

SpecHooks == InitProxy /\ [][NextHooks]_vars

\* The Factory next to the catalogue and the explicit reload: GetChannel for
\* every group, so for built-in and script-only channel types alike; the
\* update endpoint stores any text, so a registered constructor can fail.
NextFactory ==
    \/ \E ct \in ChannelTypes, s \in ReloadSources :
          Quiet /\ CreateBegin(1, ct, s) /\ UNCHANGED auxVars
    \/ CreateInsert(1) /\ UNCHANGED auxVars
    \/ \E id \in Ids, s \in Sources : Quiet /\ HandlerUpdateScript(id, s) /\ UNCHANGED auxVars
    \/ \E id \in Ids : Quiet /\ EnableBegin(1, id) /\ UNCHANGED auxVars
    \/ EnableDisableOthers(1) /\ UNCHANGED auxVars
    \/ \E reinsert \in BOOLEAN : EnableSave(1, reinsert) /\ UNCHANGED auxVars
    \/ \E id \in Ids : Quiet /\ DisableScript(id) /\ UNCHANGED auxVars
    \/ Quiet /\ ReloadAllScripts /\ UNCHANGED auxVars
    \/ \E g \in Groups : Quiet /\ GetChannel(g) /\ UNCHANGED auxVars

SpecFactory == Init /\ [][NextFactory]_vars

\* ------------------------------------------------ the validation endpoint
\* A text whose top level reads the clock: it throws when Date.now() falls in
\* an odd second.  No forbidden pattern matches Date or Math.
ClockSource == NumSources + 1

\* the texts and metadata bundles submitted to POST /scripts/validate
ValidateInputs == {1, 2, ClockSource}
Metadatas      == {1, 2}

\* ScriptSecurityValidator.ValidateScript called at time t: validateSyntax and
\* validateStructure run the text in a goja VM, where Date and Math.random are
\* the real ones.
ValidateScriptAt(s, t) ==
    IF s \in Sources THEN ValidateScript(s) ELSE t % 2 = 0

\* ScriptService.ValidateScript(scriptCode, metadata): the metadata is only
\* marshalled into the temporary row, the validator reads the text
ValidateResult(s, m, t) ==
    IF ValidateScriptAt(s, t)
    THEN [valid |-> TRUE, text |-> "Script is valid"]
    ELSE [valid |-> FALSE, text |-> "security validation failed"]

ValidateObs(s, m, result) == [op |-> "validate", s |-> s, m |-> m, result |-> result]

\* POST /scripts/validate; keep: the observer keeps this call for comparison
ValidateCall(s, m, keep) ==
    /\ last' = ValidateObs(s, m, ValidateResult(s, m, now))
    /\ hist' = IF keep THEN [hist EXCEPT !.validated = <<s, m, ValidateResult(s, m, now)>>]
               ELSE hist
    /\ UNCHANGED <<catVars, now, mgrVars, facVars, groupConfig, client, inflight, rt, locks>>

\* validation calls next to the catalogue, the explicit reload, the proxy
\* path and the clock
NextValidate ==
    \/ \E ct \in ChannelTypes, s \in ReloadSources :
          Quiet /\ nextId <= ReloadRows /\ CreateBegin(1, ct, s) /\ UNCHANGED auxVars
    \/ CreateInsert(1) /\ UNCHANGED auxVars
    \/ \E id \in Ids : Quiet /\ EnableBegin(1, id) /\ UNCHANGED auxVars
    \/ EnableDisableOthers(1) /\ UNCHANGED auxVars
    \/ \E reinsert \in BOOLEAN : EnableSave(1, reinsert) /\ UNCHANGED auxVars
    \/ \E id \in Ids : Quiet /\ DisableScript(id) /\ UNCHANGED auxVars
    \/ Quiet /\ ReloadAllScripts /\ UNCHANGED auxVars
    \/ \E g \in ReloadGroups : Quiet /\ GetChannel(g) /\ UNCHANGED auxVars
    \/ Quiet /\ AdvanceClock /\ UNCHANGED auxVars
    \/ \E s \in ValidateInputs, m \in Metadatas, keep \in BOOLEAN : ValidateCall(s, m, keep)

SpecValidate == Init /\ [][NextValidate]_vars

\* ------------------------------------------------------------- properties
EnabledRows(cat, ct) ==
    {i \in Present(cat) : cat[i].status = "enabled" /\ cat[i].channel_type = ct}

\* C1: in every reachable catalogue state, whatever the interleaving of
\* create, update, enable, disable and delete (two enables in flight
\* included), at most one entry per channel_type has status enabled.
C1_AtMostOneEnabledPerType ==
    \A ct \in ChannelTypes : Cardinality(EnabledRows(catalogue, ct)) <= 1

\* an enable has completed while another enable, of another entry, is between
\* its two UPDATE statements
C1_Witness ==
    /\ last.op = "enable" /\ last.ok /\ last.why = "-"
    /\ catalogue[last.id] # NoRow /\ catalogue[last.id].status = "enabled"
    /\ \E p \in Procs : pc[p].op = "enableSave" /\ pc[p].id # last.id

\* C2: channel_type is unique across the catalogue regardless of status: no
\* create and no update, in any order or interleaving (two creates of the same
\* type in flight included), leaves two entries with the same channel_type.
C2_ChannelTypeUnique ==
    \A i \in Present(catalogue), j \in Present(catalogue) :
        catalogue[i].channel_type = catalogue[j].channel_type => i = j

\* a create that passed the existence check was refused at the INSERT, because
\* a concurrent create of the same type had inserted first
C2_Witness ==
    /\ last.op = "create" /\ ~last.ok /\ last.why = "db"
    /\ Present(catalogue) # {}

\* C8: in every reachable state the source stored for an enabled entry is one
\* the Security Validator accepts.
C8_EnabledSourceValidated ==
    \A i \in Present(catalogue) :
        catalogue[i].status = "enabled" => ValidateScript(catalogue[i].script)

\* C9: an update that carries a script the Security Validator rejects is
\* refused and leaves the catalogue unchanged.
C9_UpdateRevalidates ==
    [][(last'.op = "update" /\ last'.src # 0 /\ ~ValidateScript(last'.src))
          => (~last'.ok /\ catalogue' = catalogue)]_vars

\* C10: enable(id) on a disabled entry whose source fails validation moves the
\* entry to status error.
C10_EnableInvalidSetsError ==
    [][(/\ last'.op = "enable" /\ last'.why = "validation"
        /\ catalogue[last'.id].status = "disabled")
          => catalogue'[last'.id].status = "error"]_vars

\* the entries a reload call works on: the list the tick fetched, or the
\* enabled rows read under the mutex
ReloadList == IF last'.op = "tick" THEN tick.list ELSE GetEnabledScripts(catalogue)

\* C3: whenever GetChannel returns a channel for a group whose channel type
\* has a dynamic constructor registered, the instance returned was built from
\* the source of that constructor (the latest successfully loaded one), not
\* from a source cached before the reload.
C3_ReloadInvalidatesCache ==
    [][(/\ last'.op = "get" /\ last'.ok
        /\ IsDynamicChannel(dynamicChannels, GroupType(last'.g)))
          => channelCache'[last'.g].src = dynamicChannels[GroupType(last'.g)]]_vars

C5_TickUnregistersInactive ==
    [][(last'.op = "tick")
          => \A ct \in activeScripts \ {e.channel_type : e \in tick.list} :
                /\ ~IsDynamicChannel(dynamicChannels', ct)
                /\ ct \notin activeScripts']_vars

\* a tick has just unregistered a type it had loaded
C5_Witness ==
    /\ last.op = "tick" /\ last.removed # {}
    /\ \A ct \in last.removed : ~IsDynamicChannel(dynamicChannels, ct)

\* C6: a tick or reloadOne that unregisters a channel type leaves no cached
\* instance for the groups bound to that type.
C6_UnregisterInvalidatesCache ==
    [][(last'.op \in {"tick", "reloadOne"})
          => \A g \in Groups :
                (/\ IsDynamicChannel(dynamicChannels, GroupType(g))
                 /\ ~IsDynamicChannel(dynamicChannels', GroupType(g)))
                    => channelCache'[g] = NoChannel]_vars

\* C7: when a tick completes, every entry it fetched as enabled, that is
\* still enabled with the same source and whose runtime builds, has a dynamic
\* constructor registered for its channel type.
C7_EnabledRegisteredAfterTick ==
    [][(last'.op = "tick")
          => \A e \in tick.list :
                (/\ catalogue[e.id] # NoRow
                 /\ catalogue[e.id].status = "enabled"
                 /\ catalogue[e.id].script = e.script
                 /\ NewScriptRuntime(e.script))
                    => /\ IsDynamicChannel(dynamicChannels', e.channel_type)
                       /\ e.channel_type \in activeScripts']_vars

\* C17: for one runtime, in every interval of 60 seconds at most 10
\* utils.httpRequest calls pass the rate limiter.
C17_SlidingWindowLimit ==
    \A i \in DOMAIN hist.passed :
        Cardinality({j \in DOMAIN hist.passed :
                        j >= i /\ hist.passed[j] - hist.passed[i] < Minute}) <= HttpLimit

\* C18: counted from a fresh runtime or from the call that starts a new
\* minute, the first 10 utils.httpRequest calls of the minute pass the rate
\* limiter, and the 11th (and any later one) raises the rate-limit error and
\* performs no outbound request.
C18_TenPassEleventhFails ==
    [][(last'.op = "http" /\ hist'.total # hist.total)
          => /\ hist'.calls <= HttpLimit => last'.pass
             /\ hist'.calls > HttpLimit =>
                   (~last'.pass /\ last'.err = "rate" /\ last'.contacted = {})]_vars

\* the 11th call of a minute that did not start with the runtime has just
\* been refused
C18_Witness ==
    /\ last.op = "http" /\ ~last.pass
    /\ hist.calls = HttpLimit + 1
    /\ hist.first > 0

\* C19: for one runtime, over all log functions together: the first 50 calls
\* of a minute are emitted, the 51st and later ones are dropped without an
\* error, and a call made 60 seconds or more after the previous log call is
\* emitted.
C19_FiftyLogsThenDrop ==
    [][(last'.op = "log" /\ hist'.logTotal # hist.logTotal)
          => /\ hist'.logCalls <= LogLimit => last'.emitted
             /\ hist'.logCalls > LogLimit => (~last'.emitted /\ ~last'.err)
             /\ (hist.logTotal > 0 /\ now - hist.logPrev >= Minute) => last'.emitted]_vars

\* a log call is emitted after a minute of quiet that followed 51 calls
C19_Witness ==
    /\ last.op = "log" /\ last.emitted
    /\ hist.logTotal = LogLimit + 2 /\ hist.logCalls = 1
    /\ hist.logFirst = Minute

\* C20: no outbound request made for a utils.httpRequest call, redirects
\* included, goes to a URL the gate rejects.
C20_NoDeniedTarget ==
    last.op = "http" => \A u \in last.contacted : validateURL(u)

\* C12: a create whose channel_type is already used by another entry is
\* answered with HTTP 400 and the message "channel type '<type>' already
\* exists", and persists nothing.
C12_DuplicateTypeAnswered400 ==
    (last.op = "create" /\ last.why = "exists")
        => /\ last.http.code = 400
           /\ last.http.message = "channel type already exists"

\* the fields of a row a client can tell two final states apart by
Visible(row) ==
    [channel_type |-> row.channel_type, script |-> row.script,
     status |-> row.status, err |-> row.err]

\* C11: for an entry with a valid source, whatever its status and error
\* fields were, enable; disable; enable ends as a single enable does: status
\* enabled, no error message, no last-error time, the rest of the row as it
\* was.
C11_EnableDisableEnable ==
    (client # NoClient /\ client.todo = <<>>)
        => /\ catalogue[client.id] # NoRow
           /\ catalogue[client.id].status = "enabled"
           /\ ~catalogue[client.id].err
           /\ Visible(catalogue[client.id]) =
                 Visible(EnabledRow(client.start, 0))

\* enable; disable; enable has returned on an entry that was in status error
C11_Witness ==
    /\ client # NoClient /\ client.todo = <<>> /\ client.n = 3
    /\ client.start.status = "error" /\ client.start.err
    /\ catalogue[client.id].status = "enabled"

\* the instance cached for g was built for the current configuration
CacheFresh(g) ==
    channelCache[g] # NoChannel /\ channelCache[g].cfg = groupConfig[g]

\* C13: GetChannel answers from the cache exactly when the group has a cached
\* instance whose configuration hash is the current one, and then returns that
\* instance untouched; otherwise it constructs, and a successful construction
\* replaces the cache entry by an instance built for the current configuration.
C13_CacheHitIffFresh ==
    [][last'.op = "get"
          => LET g == last'.g IN
             /\ (last'.how = "cache") <=> CacheFresh(g)
             /\ CacheFresh(g) => (last'.ok /\ channelCache'[g] = channelCache[g])
             /\ (~CacheFresh(g) /\ last'.ok)
                   => /\ channelCache'[g] # NoChannel
                      /\ channelCache'[g].cfg = groupConfig[g]
             /\ last'.ok
                   => \E p \in Procs :
                         /\ inflight[p] = NoRequest /\ inflight'[p] # NoRequest
                         /\ inflight'[p].inst = channelCache'[g]
                         /\ inflight'[p].inst.cfg = groupConfig[g]
             /\ ~last'.ok => channelCache'[g] = channelCache[g]]_vars

\* a request was served a newly constructed instance in place of a cached one
\* whose configuration had changed
C13_Witness ==
    /\ last.op = "get" /\ last.ok /\ last.how # "cache"
    /\ \E p \in Procs :
          /\ inflight[p] # NoRequest /\ inflight[p].cached
          /\ \E q \in Procs :
                /\ inflight[q] # NoRequest /\ ~inflight[q].cached
                /\ inflight[q].inst.cfg # inflight[p].inst.cfg

\* the adapter inside a cached instance is the one registered for its type
\* (built-in types and types with nothing registered have none to fall behind)
AdapterCurrent(inst) ==
    \/ inst.kind = "static"
    \/ ~IsDynamicChannel(dynamicChannels, inst.ct)
    \/ inst.src = dynamicChannels[inst.ct]

\* C14: no cached Channel Instance is stale on both counts: its adapter is the
\* current one of its channel type or its configuration is its group's
\* current one.
C14_NeverBothStale ==
    \A g \in Groups :
        channelCache[g] # NoChannel
            => (AdapterCurrent(channelCache[g]) \/ channelCache[g].cfg = groupConfig[g])

\* requests p and q hold the same Channel Instance object: both were handed
\* the instance that is still the cache entry of their group
SameInstance(p, q) ==
    /\ inflight[p] # NoRequest /\ inflight[q] # NoRequest
    /\ inflight[p].g = inflight[q].g
    /\ inflight[p].cached /\ inflight[q].cached

\* C15: no two hook invocations execute inside the sandbox runtime of one
\* Channel Instance at the same time.
C15_HooksSerialised ==
    \A p, q \in Procs :
        (p # q /\ SameInstance(p, q) /\ inflight[p].inst.kind = "script")
            => ~(inflight[p].at = "hook" /\ inflight[q].at = "hook")

\* C16: an instance a request holds is never changed by a step of another
\* actor (register, unregister, tick, reload, construction for the cache),
\* and every hook the request calls runs the script the instance was
\* built from.
C16_RequestKeepsAdapter ==
    [][/\ \A p \in Procs :
             (inflight[p] # NoRequest /\ inflight'[p] # NoRequest)
                 => inflight'[p].inst = inflight[p].inst
       /\ last'.op = "hook" => last'.src = inflight[last'.p].inst.src]_vars

\* a request ran a hook of a script instance after the registry had moved on:
\* the type was unregistered or registered with another script
C16_Witness ==
    /\ last.op = "hook"
    /\ inflight[last.p].inst.kind = "script"
    /\ dynamicChannels[inflight[last.p].inst.ct] # inflight[last.p].inst.src
    /\ last.src = inflight[last.p].inst.src

\* the channel types with a registered dynamic constructor
RegisteredTypes(dyn) == {ct \in ChannelTypes : dyn[ct] # NoScript}

\* C21: reloadAll is idempotent: in the state a reloadAll call leaves, a
\* second reloadAll on the unchanged catalogue ends with the same registered
\* channel types, the same active scripts and the same tracked versions.
C21_ReloadAllIdempotent ==
    last.op = "reloadAll"
        => LET again == loadAllEnabledScripts(catalogue, MgrState) IN
           /\ RegisteredTypes(again.dyn) = RegisteredTypes(dynamicChannels)
           /\ again.dyn = dynamicChannels
           /\ again.active = activeScripts
           /\ again.versions = scriptVersions

\* a reloadAll has loaded an entry and a second one would visit it again
C21_Witness ==
    /\ last.op = "reloadAll"
    /\ activeScripts # {}
    /\ \E e \in GetEnabledScripts(catalogue) : e.channel_type \in activeScripts

\* what a tick started in the current state (fetch, then checkForUpdates under
\* the mutex with nothing in between) leaves in the controller and the registry
ForcedTick ==
    LET list == GetEnabledScripts(catalogue) IN
    RemoveInactive(CheckLoop(list, MgrState), {e.channel_type : e \in list})

\* C28: reloadAll ends in the registered channel types and active scripts a
\* tick started from the same state ends in.
C28_ReloadAllIsForcedTick ==
    [][last'.op = "reloadAll"
          => /\ RegisteredTypes(dynamicChannels') = RegisteredTypes(ForcedTick.dyn)
             /\ activeScripts' = ForcedTick.active]_vars

\* C29: a call that arrives less than a minute after the previous counted
\* call never resets the window: the counter goes up by one (HTTP request
\* counter and log counter alike).
C29_ResetOnlyAfterIdleMinute ==
    [][/\ (/\ last'.op = "http" /\ hist'.total = hist.total + 1
           /\ Len(hist.passed) > 0
           /\ now - hist.passed[Len(hist.passed)] < Minute)
          => rt'.httpRequestCount = rt.httpRequestCount + 1
       /\ (/\ last'.op = "log" /\ hist'.logTotal = hist.logTotal + 1
           /\ hist.logTotal > 0
           /\ now - hist.logPrev < Minute)
          => rt'.logCount = rt.logCount + 1]_vars

\* C25: when GetChannel must construct, a registered dynamic constructor is
\* used even for a built-in type, the static constructor only when no dynamic
\* one is registered, the lazy lookup only when neither exists; a failing
\* dynamic constructor fails the call and nothing else is tried (no static
\* instance is built, no catalogue row is read or marked).
C25_ConstructorOrder ==
    [][(last'.op = "get" /\ ~CacheFresh(last'.g))
          => LET g   == last'.g
                 ct  == GroupType(g)
                 dyn == IsDynamicChannel(dynamicChannels, ct)
                 sta == ct \in StaticTypes
             IN
             /\ dyn => last'.how = "dynamic"
             /\ (~dyn /\ sta) => last'.how = "static"
             /\ (~dyn /\ ~sta) => last'.how \in {"lazy", "noscript"}
             /\ (last'.how = "dynamic" /\ last'.ok)
                   => channelCache'[g] = ScriptInstance(g, dynamicChannels[ct], groupConfig[g])
             /\ (last'.how = "dynamic" /\ ~last'.ok)
                   => (channelCache' = channelCache /\ catalogue' = catalogue)
             /\ last'.how = "static"
                   => (last'.ok /\ channelCache'[g] = StaticInstance(g, groupConfig[g]))
             /\ (last'.how = "lazy" /\ last'.ok)
                   => /\ channelCache'[g].kind = "script"
                      /\ \E id \in EnabledOfType(catalogue, ct) :
                            channelCache'[g].src = catalogue[id].script]_vars

\* the dynamic constructor registered for a built-in type was chosen, failed,
\* and the call failed without a static instance
C25_Witness ==
    /\ last.op = "get" /\ last.how = "dynamic" /\ ~last.ok
    /\ GroupType(last.g) \in StaticTypes
    /\ channelCache[last.g] = NoChannel

\* C26: a lazy bind whose construction fails marks the enabled entry it read
\* as error (status, error message, timestamp), fails the call and stores
\* nothing in the cache; with no enabled entry of the type the call fails and
\* the catalogue is left as it is.
C26_LazyBindFailure ==
    [][(last'.op = "get" /\ ~last'.ok /\ last'.how \in {"lazy", "noscript"})
          => LET g  == last'.g
                 ct == GroupType(g)
             IN
             /\ channelCache' = channelCache
             /\ last'.how = "noscript"
                   => (EnabledOfType(catalogue, ct) = {} /\ catalogue' = catalogue)
             /\ last'.how = "lazy"
                   => \E id \in EnabledOfType(catalogue, ct) :
                         /\ ~NewScriptChannel(catalogue[id].script)
                         /\ catalogue'[id].status = "error"
                         /\ catalogue'[id].err
                         /\ catalogue'[id].updated_at = now
                         /\ catalogue'[id].script = catalogue[id].script
                         /\ \A j \in Ids \ {id} : catalogue'[j] = catalogue[j]]_vars

\* a lazy bind has just failed on an entry and marked it
C26_Witness ==
    /\ last.op = "get" /\ ~last.ok /\ last.how = "lazy"
    /\ \E id \in Ids :
          /\ catalogue[id] # NoRow /\ catalogue[id].status = "error" /\ catalogue[id].err
          /\ catalogue[id].channel_type = GroupType(last.g)
    /\ channelCache[last.g] = NoChannel

\* C23: a validateKey hook that returns a promise resolved with {valid: true}
\* makes ValidateKey report the key valid; one resolved with
\* {valid: false, error: e} makes it report invalid with the error text e.
C23_AsyncValidateKey ==
    (last.op = "hook" /\ last.h = "validateKey" /\ last.res.t = "promise")
        => /\ last.res.value.valid = "true"
                => (last.out.ok /\ last.out.value = TRUE)
           /\ (last.res.value.valid = "false" /\ last.res.value.error # Absent)
                => (~last.out.ok /\ last.out.value = FALSE
                    /\ last.out.err = last.res.value.error)

\* the list isValidHeaderValue refuses (lines 466-470)
dangerousHeaders ==
    {"host", "connection", "upgrade", "proxy-connection", "proxy-authenticate",
     "proxy-authorization", "te", "trailers", "transfer-encoding", "content-length"}

\* C24: after modifyRequest every header the adapter wrote is on the outbound
\* request, except the denylisted ones, which are never on it as the
\* adapter's.
C24_DenylistOnReapply ==
    (last.op = "hook" /\ last.h = "modifyRequest" /\ last.res.object)
        => /\ \A n \in DOMAIN last.out.value :
                 last.out.value[n] = "script" => ToLower(n) \notin dangerousHeaders
           /\ \A n \in last.res.written :
                 ToLower(CanonicalMIMEHeaderKey(n)) \notin dangerousHeaders
                    => /\ CanonicalMIMEHeaderKey(n) \in DOMAIN last.out.value
                       /\ last.out.value[CanonicalMIMEHeaderKey(n)] = "script"

\* C27: a hook call that throws or answers with a value of the wrong type
\* changes no catalogue entry and leaves the instance cache as it is: the
\* instance the request holds is still the cached one.
C27_HookErrorFrame ==
    [][(last'.op = "hook" /\ HookErrored(last'.h, last'.res))
          => /\ catalogue' = catalogue
             /\ channelCache' = channelCache
             /\ inflight[last'.p].cached
                   => channelCache'[inflight[last'.p].g] = inflight[last'.p].inst]_vars

\* a hook of a cached instance has just thrown
C27_Witness ==
    /\ last.op = "hook" /\ last.res.t = "throw"
    /\ inflight[last.p].cached
    /\ channelCache[inflight[last.p].g] = inflight[last.p].inst

\* C30: buildUpstreamURL fails the request whenever the hook throws or
\* returns something that is not a string; no URL comes out of such a result.
C30_NonStringUrlFails ==
    (last.op = "hook" /\ last.h = "buildUpstreamURL" /\ last.res.t # "string")
        => (~last.out.ok /\ last.out.value = "")

\* C22: validation is pure: a call answers as every earlier call with the same
\* source and metadata did, whatever happened in between, and it changes no
\* catalogue entry, no registered constructor and no cached instance.
C22_ValidatePure ==
    [][last'.op = "validate"
          => /\ (hist.validated # <<>> /\ hist.validated[1] = last'.s
                 /\ hist.validated[2] = last'.m)
                   => last'.result = hist.validated[3]
             /\ catalogue' = catalogue
             /\ dynamicChannels' = dynamicChannels
             /\ channelCache' = channelCache]_vars

\* C31: when the modifyRequest hook throws, the request is aborted: the
\* method reports a failure and no header the adapter wrote before the throw
\* is on the outbound request.
C31_ThrowAborts ==
    (last.op = "hook" /\ last.h = "modifyRequest" /\ last.res.threw)
        => /\ ~last.out.ok
           /\ \A n \in DOMAIN last.out.value : last.out.value[n] = "client"

\* C32: isStreamRequest answers true only when the hook returned the boolean
\* true; a throw or a value that is not a boolean gives false.
C32_StreamOnlyOnTrue ==
    (last.op = "hook" /\ last.h = "isStreamRequest")
        => (last.out.value = TRUE <=> last.res = JsBool(TRUE))

\* ---------------------------------------------------------------------------
\* The Security Validator on a script text (script_service.go 355-457).  A
\* text is described by what the checks look at: its size in bytes, whether a
\* forbidden pattern matches, its lines (the braces on each, and how many
\* further lines without braces), the number of function definitions, whether
\* each of the two executions of the text succeeds, and whether exports()
\* gives an object that meets the contract.

MaxScriptSize   == 1048576
MaxLineCount    == 10000
MaxNestingDepth == 20
MaxFunctions    == 100

MaxTextLines == 2
BraceCounts  == {0, MaxNestingDepth, MaxNestingDepth + 1}

\* a line of text with o opening braces followed by c closing braces
BraceLine(o, c) == [i \in 1..(o + c) |-> IF i <= o THEN "{" ELSE "}"]

BraceLines == {BraceLine(o, c) : o \in BraceCounts, c \in BraceCounts}

LineSeqs ==
    UNION {[1..n -> BraceLines] : n \in 1..MaxTextLines}

Texts ==
    [size      : {MaxScriptSize, MaxScriptSize + 1},
     pattern   : BOOLEAN,
     lines     : LineSeqs,
     blank     : {0, MaxLineCount},
     functions : {MaxFunctions, MaxFunctions + 1},
     run1      : BOOLEAN,
     run2      : BOOLEAN,
     exports   : BOOLEAN]

\* strings.Count(line, ch)
Count(line, ch) == Cardinality({i \in DOMAIN line : line[i] = ch})

\* the loop of validateComplexity over the lines (lines 399-412): the depth is
\* moved once per line by the difference of the two counts, and compared with
\* the cap after each line
RECURSIVE NestingLoop(_, _, _, _)
NestingLoop(lines, i, currentNesting, maxNesting) ==
    IF i > Len(lines) THEN TRUE
    ELSE LET cur == currentNesting + Count(lines[i], "{") - Count(lines[i], "}")
             max == IF cur > maxNesting THEN cur ELSE maxNesting
         IN  IF max > MaxNestingDepth THEN FALSE
             ELSE NestingLoop(lines, i + 1, cur, max)

\* ScriptSecurityValidator.validateComplexity: TRUE when it returns nil
validateComplexity(text) ==
    /\ ~(Len(text.lines) + text.blank > MaxLineCount)
    /\ NestingLoop(text.lines, 1, 0, 0)
    /\ ~(text.functions > MaxFunctions)

\* ScriptSecurityValidator.validateSyntax: the first execution of the text
validateSyntax(text) == text.run1

\* ScriptSecurityValidator.validateStructure: the second execution, then
\* exports() and the contract on what it returns
validateStructure(text) == text.run2 /\ text.exports

\* what ValidateScript answers: accepted or not, the check that refused, and
\* how many times the text was executed
Verdict(ok, reason, runs) == [ok |-> ok, reason |-> reason, runs |-> runs]

\* the validator with the text executed before the textual checks
ValidateScriptParseFirst(text) ==
    IF text.size > MaxScriptSize THEN Verdict(FALSE, "size", 0)
    ELSE IF ~validateSyntax(text) THEN Verdict(FALSE, "syntax", 1)
    ELSE IF text.pattern THEN Verdict(FALSE, "pattern", 1)
    ELSE IF ~validateComplexity(text) THEN Verdict(FALSE, "complexity", 1)
    ELSE IF ~validateStructure(text) THEN Verdict(FALSE, "structure", 2)
    ELSE Verdict(TRUE, "", 2)

\* ScriptSecurityValidator.ValidateScript on a text, lines 355-388
ValidateScriptText(text) ==
    IF text.size > MaxScriptSize THEN Verdict(FALSE, "size", 0)
    ELSE IF text.pattern THEN Verdict(FALSE, "pattern", 0)
    ELSE IF ~validateComplexity(text) THEN Verdict(FALSE, "complexity", 0)
    ELSE IF ~validateSyntax(text) THEN Verdict(FALSE, "syntax", 1)
    ELSE IF ~validateStructure(text) THEN Verdict(FALSE, "structure", 2)
    ELSE Verdict(TRUE, "", 2)

ValidatorObs(text, out) == [op |-> "validator", text |-> text, out |-> out]

\* a text handed to the validator
Submitted(text) == [op |-> "submit", text |-> text]

\* one call of the validator on the submitted text; it keeps no state
ValidatorCall ==
    /\ last.op = "submit"
    /\ last' = ValidatorObs(last.text, ValidateScriptText(last.text))
    /\ UNCHANGED <<catVars, now, mgrVars, facVars, groupConfig, auxVars>>

\* every text is submitted to a validator in its initial state
InitValidator ==
    /\ catalogue = [i \in Ids |-> NoRow]
    /\ nextId = 1
    /\ pc = [p \in Procs |-> Idle]
    /\ now = 0
    /\ activeScripts = {}
    /\ scriptVersions = [i \in Ids |-> NoVersion]
    /\ running = FALSE
    /\ stopClosed = FALSE
    /\ loopAlive = 0
    /\ panicked = FALSE
    /\ tick = NoTick
    /\ ticked = FALSE
    /\ dynamicChannels = [ct \in ChannelTypes |-> NoScript]
    /\ channelCache = [g \in Groups |-> NoChannel]
    /\ groupConfig = [g \in Groups |-> 1]
    /\ last \in {Submitted(text) : text \in Texts}
    /\ client = NoClient
    /\ inflight = [p \in Procs |-> NoRequest]
    /\ rt = NewRuntimeFields
    /\ hist = NoHistory
    /\ locks = NoLocks

NextValidator == ValidatorCall

SpecValidator == InitValidator /\ [][NextValidator]_vars

\* the checks in the order the validator is to apply them, and whether a text
\* fails one of them
CheckOrder == <<"size", "pattern", "complexity", "syntax", "structure">>

Fails(text, check) ==
    CASE check = "size"       -> text.size > MaxScriptSize
      [] check = "pattern"    -> text.pattern
      [] check = "complexity" -> ~validateComplexity(text)
      [] check = "syntax"     -> ~text.run1
      [] check = "structure"  -> ~(text.run2 /\ text.exports)

\* C33: the validator reports the earliest failing check in the order size,
\* pattern, complexity, parse-and-execute, structure, accepts when none
\* fails, and never executes the text when one of the first three fails.
C33_FirstFailureInOrder ==
    last.op = "validator"
        => LET failing == {i \in DOMAIN CheckOrder : Fails(last.text, CheckOrder[i])} IN
           IF failing = {} THEN last.out.ok /\ last.out.reason = ""
           ELSE LET first == MinOf(failing) IN
                /\ ~last.out.ok
                /\ last.out.reason = CheckOrder[first]
                /\ first <= 3 => last.out.runs = 0

\* a text that matches a forbidden pattern and also fails to parse was
\* refused for the pattern without being executed
C33_Witness ==
    /\ last.op = "validator"
    /\ last.text.pattern /\ ~last.text.run1 /\ last.text.size <= MaxScriptSize
    /\ last.out.reason = "pattern" /\ last.out.runs = 0

\* the text of all lines, one character after the other
RECURSIVE Flatten(_)
Flatten(lines) == IF lines = <<>> THEN <<>> ELSE Head(lines) \o Flatten(Tail(lines))

\* the deepest brace nesting reached anywhere in a text
RECURSIVE DepthFrom(_, _, _, _)
DepthFrom(chars, i, depth, deepest) ==
    IF i > Len(chars) THEN deepest
    ELSE LET d == IF chars[i] = "{" THEN depth + 1 ELSE depth - 1 IN
         DepthFrom(chars, i + 1, d, IF d > deepest THEN d ELSE deepest)

NestingDepth(text) == DepthFrom(Flatten(text.lines), 1, 0, 0)

\* C34: among texts within the other caps, the validator passes the
\* complexity check when the deepest brace nesting is at most 20 and refuses
\* for complexity when it is 21 or more, wherever the braces are.
C34_NestingCap ==
    (/\ last.op = "validator"
     /\ last.text.size <= MaxScriptSize /\ ~last.text.pattern
     /\ last.text.blank = 0 /\ last.text.functions <= MaxFunctions)
        => /\ NestingDepth(last.text) <= MaxNestingDepth => last.out.reason # "complexity"
           /\ NestingDepth(last.text) > MaxNestingDepth => last.out.reason = "complexity"

\* C35: after every controller operation (Start, tick, ReloadScript,
\* ReloadAllScripts), the channel types GetActiveScripts reports are exactly
\* the channel types with a dynamic constructor registered in the Factory.
C35_ActiveIsRegistered ==
    activeScripts = RegisteredTypes(dynamicChannels)

\* a tick has just ended with a script loaded and its version tracked
C35_Witness ==
    /\ last.op = "tick" /\ activeScripts # {}
    /\ activeScripts = RegisteredTypes(dynamicChannels)
    /\ scriptVersions # [i \in Ids |-> NoVersion]

\* C36: a tick body that runs right after ReloadScript(id) has returned for an
\* entry that is not enabled does not register a constructor for the channel
\* type of that entry, even when the tick fetched its list before the disable.
C36_TickKeepsUnloaded ==
    [][(/\ last.op = "reloadOne" /\ last.id # 0
        /\ catalogue[last.id] # NoRow
        /\ catalogue[last.id].status # "enabled"
        /\ last'.op = "tick")
          => ~IsDynamicChannel(dynamicChannels', catalogue[last.id].channel_type)]_vars

\* ---------------------------------------------------------------------------
\* The life cycle of one ScriptManager: Start and Stop in any order, the
\* reloadLoop goroutines they leave behind, and the ticks, next to creates,
\* enables and disables of catalogue entries.  A panic ends the process.
NextLifecycle ==
    \/ \E ct \in ChannelTypes, s \in ReloadSources :
          Quiet /\ nextId <= ReloadRows /\ CreateBegin(1, ct, s) /\ UNCHANGED auxVars
    \/ CreateInsert(1) /\ UNCHANGED auxVars
    \/ \E id \in Ids : Quiet /\ EnableBegin(1, id) /\ UNCHANGED auxVars
    \/ EnableDisableOthers(1) /\ UNCHANGED auxVars
    \/ \E reinsert \in BOOLEAN : EnableSave(1, reinsert) /\ UNCHANGED auxVars
    \/ \E id \in Ids : Quiet /\ DisableScript(id) /\ UNCHANGED auxVars
    \/ Quiet /\ Start /\ UNCHANGED auxVars
    \/ Quiet /\ Stop /\ UNCHANGED auxVars
    \/ Quiet /\ LoopExit /\ UNCHANGED auxVars
    \/ Quiet /\ TickRead /\ UNCHANGED auxVars
    \/ Quiet /\ TickBody /\ UNCHANGED auxVars
    \/ Quiet /\ AdvanceClock /\ UNCHANGED auxVars

SpecLifecycle == Init /\ [][NextLifecycle]_vars

\* C37: whenever the last call on the controller was a successful Start, a
\* reconciliation loop is alive that has not been told to stop, so that it
\* goes on executing ticks until the next Stop.
C37_LoopRunsAfterStart ==
    running => (loopAlive > 0 /\ ~stopClosed)

\* C38: no sequence of Start and Stop calls closes the stop channel a second
\* time.
C38_NoDoubleClose ==
    ~panicked

\* ---------------------------------------------------------------------------
\* The instance cache next to configuration changes: entry 1 is enabled and
\* loaded as on the proxy path; its text is updated to any source, it is
\* disabled, enabled and reloaded, groups get another configuration (one with
\* no upstream included), and GetChannel is called for every group.
CacheConfigs == Configs \cup {NoUpstreams}

NextCache ==
    \/ \E s \in Sources : Quiet /\ HandlerUpdateScript(1, s) /\ UNCHANGED auxVars
    \/ Quiet /\ EnableBegin(1, 1) /\ UNCHANGED auxVars
    \/ EnableDisableOthers(1) /\ UNCHANGED auxVars
    \/ \E reinsert \in BOOLEAN : EnableSave(1, reinsert) /\ UNCHANGED auxVars
    \/ Quiet /\ DisableScript(1) /\ UNCHANGED auxVars
    \/ Quiet /\ ReloadScript(1) /\ UNCHANGED auxVars
    \/ Quiet /\ ReloadAllScripts /\ UNCHANGED auxVars
    \/ \E g \in Groups, c \in CacheConfigs : Quiet /\ UpdateGroup(g, c) /\ UNCHANGED auxVars
    \/ \E g \in Groups : Quiet /\ GetChannel(g) /\ UNCHANGED auxVars

SpecCache == InitProxy /\ [][NextCache]_vars

\* C39: a GetChannel that fails (constructor error, no upstream, unsupported
\* channel type) leaves the instance cache exactly as it was: nothing is
\* added, and a stale entry of the group is neither served nor replaced.
C39_FailedGetKeepsCache ==
    [][(last'.op = "get" /\ ~last'.ok)
          => /\ channelCache' = channelCache
             /\ last'.how # "cache"]_vars

\* a GetChannel has just failed for a group without upstreams whose stale
\* instance is still in the cache
C39_Witness ==
    /\ last.op = "get" /\ ~last.ok
    /\ groupConfig[last.g] = NoUpstreams
    /\ channelCache[last.g] # NoChannel
    /\ IsConfigStale(channelCache[last.g], last.g, groupConfig[last.g])

\* ---------------------------------------------------------------------------
\* The locking of the Factory and the controller.  A call is the sequence of
\* lock operations its code performs, in order; a goroutine executes them one
\* at a time and blocks on a lock that is not free.  What the calls read and
\* write between the lock operations decides only which of these sequences a
\* call follows, so every sequence the code can follow is offered.
MaxTableCalls == 2

Instr(do, on) == [do |-> do, on |-> on]

\* Factory.GetChannel: cacheLock for the whole call (deferred unlock); on a
\* miss the read lock of the dynamic table around the lookup only
GetChannelPath(hit) ==
    <<Instr("Lock", "f.cacheLock")>>
        \o (IF hit THEN <<>>
            ELSE <<Instr("RLock", "f.mutex"), Instr("RUnlock", "f.mutex")>>)
        \o <<Instr("Unlock", "f.cacheLock")>>

\* Factory.RegisterDynamicChannel
RegisterPath == <<Instr("Lock", "f.mutex"), Instr("Unlock", "f.mutex")>>

\* an unregistration that also drops the cached instances of the type while
\* it holds the table lock
UnregisterInvalidatingPath ==
    <<Instr("Lock", "f.mutex"), Instr("Lock", "f.cacheLock"),
      Instr("Unlock", "f.cacheLock"), Instr("Unlock", "f.mutex")>>

\* Factory.UnregisterDynamicChannel
UnregisterPath == <<Instr("Lock", "f.mutex"), Instr("Unlock", "f.mutex")>>

\* Factory.InvalidateCache
InvalidateCachePath == <<Instr("Lock", "f.cacheLock"), Instr("Unlock", "f.cacheLock")>>

\* n registrations one after the other
RECURSIVE Registrations(_)
Registrations(n) == IF n = 0 THEN <<>> ELSE RegisterPath \o Registrations(n - 1)

\* m unregistrations one after the other
RECURSIVE Unregistrations(_)
Unregistrations(m) == IF m = 0 THEN <<>> ELSE UnregisterPath \o Unregistrations(m - 1)

\* what a controller call does under its mutex: loadScript registers,
\* the removal loop and ReloadScript of a disabled entry unregister
UnderMutex(body) ==
    <<Instr("Lock", "sm.mutex")>> \o body \o <<Instr("Unlock", "sm.mutex")>>

\* checkForUpdates: n entries reloaded, then m types removed
checkForUpdatesPath(n, m) == UnderMutex(Registrations(n) \o Unregistrations(m))

\* ReloadScript: the entry is missing or does not build, is not enabled, or
\* is loaded
ReloadScriptPath(how) ==
    UnderMutex(CASE how = "error"  -> <<>>
                 [] how = "unload" -> UnregisterPath
                 [] how = "load"   -> RegisterPath)

\* ReloadAllScripts: n entries loaded
ReloadAllScriptsPath(n) == UnderMutex(Registrations(n))

\* GetActiveScripts
GetActiveScriptsPath == <<Instr("RLock", "sm.mutex"), Instr("RUnlock", "sm.mutex")>>

Outside(t) == locks.todo[t] = <<>>

\* a goroutine enters a call
Call(t, path) ==
    /\ Outside(t)
    /\ locks' = [locks EXCEPT !.todo[t] = path]
    /\ UNCHANGED <<catVars, now, mgrVars, facVars, groupConfig, last, client, inflight,
                   rt, hist>>

\* the lock operation goroutine t is at, and whether it can be performed now
NextInstr(t) == Head(locks.todo[t])

CanStep(t) ==
    LET i == NextInstr(t) IN
    CASE i.do = "Lock"    -> locks.writer[i.on] = 0 /\ locks.readers[i.on] = {}
      [] i.do = "RLock"   -> locks.writer[i.on] = 0
      [] i.do = "Unlock"  -> locks.writer[i.on] = t
      [] i.do = "RUnlock" -> t \in locks.readers[i.on]

Done(t) == [locks.todo EXCEPT ![t] = Tail(@)]

notLocks == <<catVars, now, mgrVars, facVars, groupConfig, last, client, inflight, rt, hist>>

\* sync.Mutex.Lock / sync.RWMutex.Lock
DoLock(t) ==
    /\ ~Outside(t) /\ NextInstr(t).do = "Lock" /\ CanStep(t)
    /\ locks' = [locks EXCEPT !.writer[NextInstr(t).on] = t, !.todo = Done(t)]
    /\ UNCHANGED notLocks

\* Unlock
DoUnlock(t) ==
    /\ ~Outside(t) /\ NextInstr(t).do = "Unlock" /\ CanStep(t)
    /\ locks' = [locks EXCEPT !.writer[NextInstr(t).on] = 0, !.todo = Done(t)]
    /\ UNCHANGED notLocks

\* sync.RWMutex.RLock
DoRLock(t) ==
    /\ ~Outside(t) /\ NextInstr(t).do = "RLock" /\ CanStep(t)
    /\ locks' = [locks EXCEPT !.readers[NextInstr(t).on] = @ \cup {t}, !.todo = Done(t)]
    /\ UNCHANGED notLocks

\* RUnlock
DoRUnlock(t) ==
    /\ ~Outside(t) /\ NextInstr(t).do = "RUnlock" /\ CanStep(t)
    /\ locks' = [locks EXCEPT !.readers[NextInstr(t).on] = @ \ {t}, !.todo = Done(t)]
    /\ UNCHANGED notLocks

NextLocks ==
    \/ \E t \in Threads, hit \in BOOLEAN : Call(t, GetChannelPath(hit))
    \/ \E t \in Threads : Call(t, RegisterPath)
    \/ \E t \in Threads : Call(t, UnregisterPath)
    \/ \E t \in Threads : Call(t, InvalidateCachePath)
    \/ \E t \in Threads, n \in 0..MaxTableCalls, m \in 0..MaxTableCalls :
          n + m <= MaxTableCalls /\ Call(t, checkForUpdatesPath(n, m))
    \/ \E t \in Threads, how \in {"error", "unload", "load"} : Call(t, ReloadScriptPath(how))
    \/ \E t \in Threads, n \in 0..MaxTableCalls : Call(t, ReloadAllScriptsPath(n))
    \/ \E t \in Threads : Call(t, GetActiveScriptsPath)
    \/ \E t \in Threads : DoLock(t)
    \/ \E t \in Threads : DoUnlock(t)
    \/ \E t \in Threads : DoRLock(t)
    \/ \E t \in Threads : DoRUnlock(t)

SpecLocks == Init /\ [][NextLocks]_vars

\* the locks goroutine t holds, and the goroutines holding lock l
Holds(t) == {l \in LockNames : locks.writer[l] = t \/ t \in locks.readers[l]}
Holders(l) == {t \in Threads : l \in Holds(t)}

\* goroutines that wait for each other: each is blocked on a lock that a
\* member of the set holds
Deadlocked(S) ==
    /\ S # {}
    /\ \A t \in S : /\ ~Outside(t) /\ ~CanStep(t)
                    /\ Holders(NextInstr(t).on) \cap S # {}

\* the order in which locks are taken: the controller mutex or the cache
\* mutex first, the lock of the dynamic table last
LockRank(l) == IF l = "f.mutex" THEN 2 ELSE 1

\* C40: under any interleaving of GetChannel, Register/UnregisterDynamicChannel,
\* InvalidateCache, ticks and ReloadScript/ReloadAllScripts, no set of
\* goroutines waits for each other, a lock is requested only while holding
\* locks that come before it in one fixed order, and a goroutine that has
\* left its call holds no lock.
C40_NoDeadlock ==
    /\ \A S \in SUBSET Threads : ~Deadlocked(S)
    /\ \A t \in Threads :
          (~Outside(t) /\ NextInstr(t).do \in {"Lock", "RLock"})
              => \A h \in Holds(t) : LockRank(h) < LockRank(NextInstr(t).on)
    /\ \A t \in Threads : Outside(t) => Holds(t) = {}

\* a tick holds the controller mutex and the table lock while a GetChannel
\* that holds the cache mutex waits for the table and a third call waits for
\* the cache mutex
C40_Witness ==
    \E t1, t2, t3 \in Threads :
        /\ Holds(t1) = {"sm.mutex", "f.mutex"}
        /\ Holds(t2) = {"f.cacheLock"}
        /\ ~Outside(t2) /\ NextInstr(t2) = Instr("RLock", "f.mutex") /\ ~CanStep(t2)
        /\ ~Outside(t3) /\ NextInstr(t3) = Instr("Lock", "f.cacheLock") /\ ~CanStep(t3)

====
